---- MODULE Spec2Model ----
(***************************************************************************)
(* A model of the rule-reactor condition engine (package `rules`):         *)
(* the ConditionNode tree algebra of rules/core.py (evaluate, negate,      *)
(* collapse, the add family), the Condition leaf, the deferred values of   *)
(* rules/deferred.py and the text formatter of rules/formatter.py.         *)
(*                                                                         *)
(* Python exceptions are modelled as outcomes: every operation yields a    *)
(* record holding the object as the call left it and the name of the       *)
(* exception that escaped ("none" when the call returned).                 *)
(***************************************************************************)
EXTENDS Integers, Sequences, FiniteSets, TLC

\* ------------------------------------------------------------------ bounds
\* Largest number of children of a node of an initial tree.
MaxWidth == 2
\* Number of calls made on one tree.
MaxCalls == 3
\* Number of members added to one node.
MaxAdds == 2

\* ------------------------------------------------------------- connectors
AND == "AND"
OR == "OR"
Connectors == {AND, OR}

\* -------------------------------------------------------------- tree values
\* A child of a node is a leaf with the evaluate/negate capability (a test
\* double holding the boolean it evaluates to, negate() flips it) or a
\* ConditionNode.  Both are records of one shape.
Leaf(b) == [kind |-> "leaf", connector |-> "-", children |-> <<>>, v |-> b]

\* tree.Node.__init__ as ConditionNode inherits it: children copied,
\* connector as given.
ConditionNode(children, connector) ==
    [kind |-> "node", connector |-> connector, children |-> children, v |-> FALSE]

\* ConditionNode.default
default == AND

IsNode(x) == x.kind = "node"

\* tree.Node._new_instance: a fresh node of the same class.
NewInstance(children, connector) == ConditionNode(children, connector)

SeqsUpTo(S, n) == UNION {[1..k -> S] : k \in 0..n}

Leaves == {Leaf(b) : b \in BOOLEAN}
Level1 == {ConditionNode(s, c) : s \in SeqsUpTo(Leaves, MaxWidth), c \in Connectors}
Level2 == {ConditionNode(s, c) : s \in SeqsUpTo(Leaves \cup Level1, MaxWidth), c \in Connectors}
\* The trees a run starts from.
InitTrees == Level2

\* The names the module rules/core.py binds at top level; a bare name used
\* in a method body that is neither a local nor one of these raises
\* NameError when the statement is reached.
CoreGlobals == {"copy", "re", "tree", "ContentType", "AND", "OR", "ConditionNode",
                "get_value", "Condition", "ConditionTree"}

\* ----------------------------------------------------- ConditionNode methods
\* ConditionNode._evaluate: the generator's iterable is the bare name
\* `children`, looked up when the generator is created, before any child is
\* evaluated.  The outcome is "True", "False" or the exception's name.
RECURSIVE ConditionNode_evaluate(_)
RECURSIVE EvalChildren(_, _, _)
EvalChildren(s, i, connector) ==
    IF i > Len(s) THEN (IF connector = AND THEN "True" ELSE "False")
    ELSE LET r == IF IsNode(s[i]) THEN ConditionNode_evaluate(s[i])
                  ELSE (IF s[i].v THEN "True" ELSE "False")
         IN  IF r \notin {"True", "False"} THEN r
             ELSE IF connector = AND /\ r = "False" THEN "False"
             ELSE IF connector # AND /\ r = "True" THEN "True"
             ELSE EvalChildren(s, i + 1, connector)
ConditionNode_evaluate(n) ==
    IF "children" \notin CoreGlobals THEN "NameError"
    ELSE EvalChildren(n.children, 1, n.connector)

\* ConditionNode.negate.  Children are negated in order, in place; a child
\* node's own negate() raises at its last statement, which ends the loop with
\* the later children untouched and this node not yet wrapped.  When every
\* child is a leaf the children are wrapped in one new node carrying the dual
\* connector, and the last statement reads the bare name `default`.
Dual(connector) == IF connector = OR THEN AND ELSE OR

RECURSIVE ConditionNode_negate(_)
RECURSIVE NegateChildren(_, _)
NegateChildren(s, i) ==
    IF i > Len(s) THEN [children |-> s, exc |-> "none"]
    ELSE IF IsNode(s[i])
         THEN LET r == ConditionNode_negate(s[i])
                  s2 == [s EXCEPT ![i] = r.t]
              IN  IF r.exc # "none" THEN [children |-> s2, exc |-> r.exc]
                  ELSE NegateChildren(s2, i + 1)
         ELSE IF s[i].kind = "cond"
         THEN NegateChildren([s EXCEPT ![i].c.negated = ~@], i + 1)
         ELSE NegateChildren([s EXCEPT ![i] = Leaf(~s[i].v)], i + 1)
ConditionNode_negate(n) ==
    LET connector == Dual(n.connector)
        r == NegateChildren(n.children, 1)
    IN  IF r.exc # "none"
        THEN [t |-> [n EXCEPT !.children = r.children], exc |-> r.exc]
        ELSE LET wrapped == [n EXCEPT !.children = <<NewInstance(r.children, connector)>>]
             IN  IF "default" \notin CoreGlobals
                 THEN [t |-> wrapped, exc |-> "NameError"]
                 ELSE [t |-> [wrapped EXCEPT !.connector = default], exc |-> "none"]

\* ConditionNode.collapse.  c aliases self.children.  Each child node is
\* collapsed first (its exception ends the call); a child left with no
\* children, or with this node's connector, is to be inlined, and the
\* statement that removes it reads the bare name `children`.  After the loop
\* a single remaining child node hands its children and connector up.
RECURSIVE ConditionNode_collapse(_)
RECURSIVE CollapseLoop(_, _)
CollapseLoop(n, i) ==
    LET c == n.children
    IN  IF i > Len(c) THEN [t |-> n, exc |-> "none"]
        ELSE IF IsNode(c[i])
             THEN LET r == ConditionNode_collapse(c[i])
                      child == r.t
                      n2 == [n EXCEPT !.children = [c EXCEPT ![i] = child]]
                  IN  IF r.exc # "none" THEN [t |-> n2, exc |-> r.exc]
                      ELSE IF Len(child.children) = 0 \/ child.connector = n.connector
                           THEN IF "children" \notin CoreGlobals
                                THEN [t |-> n2, exc |-> "NameError"]
                                ELSE CollapseLoop(
                                       [n EXCEPT !.children =
                                          SubSeq(c, 1, i - 1) \o SubSeq(c, i + 1, Len(c))
                                          \o child.children], i)
                           ELSE CollapseLoop(n2, i + 1)
             ELSE CollapseLoop(n, i + 1)
\* collapse without its loop over the children: only the last step.
collapse_without_loop(n) ==
    LET c == n.children
    IN  IF Len(c) = 1 /\ IsNode(c[1])
        THEN [t |-> [n EXCEPT !.children = c[1].children, !.connector = c[1].connector],
              exc |-> "none"]
        ELSE [t |-> n, exc |-> "none"]
ConditionNode_collapse(n) ==
    LET r == IF Len(n.children) > 0 THEN CollapseLoop(n, 1) ELSE [t |-> n, exc |-> "none"]
        c == r.t.children
    IN  IF r.exc # "none" THEN r
        ELSE IF Len(c) = 1 /\ IsNode(c[1])
             THEN [t |-> [r.t EXCEPT !.children = c[1].children, !.connector = c[1].connector],
                   exc |-> "none"]
             ELSE r

\* ------------------------------------------------------------ the add family
\* tree.Node.add as ConditionNode inherits it from the Django release the
\* package requires (setup.py: django>=1.4.6; the Node.negate it overrides has
\* the same wrap-and-reset shape): with fewer than two children the connector
\* is simply taken over; under an equal connector the member is appended, or
\* its children are taken over when it is a node of that connector or of one
\* child; under a different connector the children are pushed down into a new
\* node that keeps the old connector.  The members the model adds are objects
\* the node does not hold yet.
add(self, node, conn_type) ==
    LET connector == IF Len(self.children) < 2 THEN conn_type ELSE self.connector
    IN  IF connector = conn_type
        THEN IF IsNode(node) /\ (node.connector = conn_type \/ Len(node.children) = 1)
             THEN [self EXCEPT !.connector = connector, !.children = @ \o node.children]
             ELSE [self EXCEPT !.connector = connector, !.children = Append(@, node)]
        ELSE ConditionNode(<<NewInstance(self.children, self.connector), node>>, conn_type)

\* ConditionNode._add: add with validation of the connector.
_add(self, node, conn_type) ==
    IF Len(self.children) >= 1 /\ conn_type # self.connector
    THEN [t |-> self, exc |-> "ValueError"]
    ELSE [t |-> add(self, node, conn_type), exc |-> "none"]

\* ConditionNode.__iand__ and __ior__: n &= other, n |= other.
__iand__(self, other) == add(self, other, AND)
\* (a variant of __ior__ that joins under AND, as __iand__ does)
ior_joins_and(self, other) == add(self, other, AND)
__ior__(self, other) == add(self, other, OR)

\* The operators that work on copy.deepcopy(self): t is the node returned.
\* __invert__ calls negate() on the copy; __or__ binds the copy to `ored` and
\* then reads the bare name `order`.
__invert__(self) ==
    LET r == ConditionNode_negate(self) IN [t |-> r.t, exc |-> r.exc]
__and__(self, other) == [t |-> __iand__(self, other), exc |-> "none"]
__or__(self, other) ==
    IF "order" \notin CoreGlobals THEN [t |-> self, exc |-> "NameError"]
    ELSE [t |-> __ior__(self, other), exc |-> "none"]

\* ------------------------------------------------- trees from stored records
\* A stored condition: pk, parent_id (0 for None), connector, rule_id.  While
\* a tree is assembled the nodes are objects shared by reference (the dict
\* `nodes`, the parents' children lists), so the builders work on a heap:
\* object id -> [connector, children], a child being a reference to a record
\* or to a node object.  Object 0 is `root`, object pk is nodes[pk], and the
\* objects made by pushing children down get the ids -1, -2, ...
CondRef(pk) == [ref |-> "cond", id |-> pk]
NodeRef(id) == [ref |-> "node", id |-> id]
HeapNode(children, connector) == [connector |-> connector, children |-> children]

\* tree.Node.add on the heap (see add): self and a member node are objects.
\* mixed records that the add met a parent holding a child under another
\* connector.
HeapAdd(st, self, member, conn_type) ==
    LET h == st.heap
        me == h[self]
        connector == IF Len(me.children) < 2 THEN conn_type ELSE me.connector
        mixed == st.mixed \/ (Len(me.children) >= 1 /\ conn_type # me.connector)
    IN  IF connector = conn_type
        THEN IF /\ member.ref = "node"
                /\ (h[member.id].connector = conn_type \/ Len(h[member.id].children) = 1)
             THEN [st EXCEPT !.mixed = mixed,
                             !.heap[self] = HeapNode(me.children \o h[member.id].children, connector)]
             ELSE [st EXCEPT !.mixed = mixed,
                             !.heap[self] = HeapNode(Append(me.children, member), connector)]
        ELSE LET k == 0 - (st.fresh + 1)
             IN  [st EXCEPT !.mixed = mixed,
                            !.fresh = @ + 1,
                            !.heap = (k :> HeapNode(me.children, me.connector)) @@
                                     [h EXCEPT ![self] = HeapNode(<<NodeRef(k), member>>, conn_type)]]

Pks(conditions) == {conditions[i].pk : i \in 1..Len(conditions)}
Pids(conditions) == {conditions[i].parent_id : i \in 1..Len(conditions)} \ {0}

\* The loop shared by ConditionTree and BaseRule._build_tree: each record is
\* added to its parent's node (root when it has none) under its own
\* connector, then the record's own node, if it is a parent, likewise.
RECURSIVE BuildLoop(_, _, _, _, _)
BuildLoop(st, conditions, i, nodeIds, checkRule) ==
    IF i > Len(conditions) THEN st
    ELSE LET condition == conditions[i]
             parent == IF condition.parent_id \in nodeIds THEN condition.parent_id ELSE 0
             s1 == HeapAdd(st, parent, CondRef(condition.pk), condition.connector)
             s2 == IF condition.pk \in nodeIds
                   THEN HeapAdd(s1, parent, NodeRef(condition.pk), condition.connector)
                   ELSE s1
         IN  IF checkRule /\ condition.rule_id # conditions[1].rule_id
             THEN [st EXCEPT !.exc = "ValueError"]
             ELSE BuildLoop(s2, conditions, i + 1, nodeIds, checkRule)

\* The tree value an object of the heap stands for (fuel bounds the walk).
RECURSIVE Materialize(_, _, _)
Materialize(h, id, fuel) ==
    ConditionNode(
        [i \in 1..Len(h[id].children) |->
            LET c == h[id].children[i]
            IN  IF c.ref = "cond" THEN [kind |-> "cond", pk |-> c.id]
                ELSE IF fuel = 0 THEN [kind |-> "cut"]
                ELSE Materialize(h, c.id, fuel - 1)],
        h[id].connector)

BuildStart(nodeIds) ==
    [heap |-> [id \in nodeIds \cup {0} |-> HeapNode(<<>>, default)],
     fresh |-> 0, mixed |-> FALSE, exc |-> "none"]

\* What a builder leaves: the tree t, what it raised, and the objects root
\* and nodes as they are at the end (heap).
Built(st, n) ==
    [t |-> IF st.exc = "none" THEN Materialize(st.heap, 0, 2 * n + 1) ELSE ConditionNode(<<>>, default),
     exc |-> st.exc, mixed |-> st.mixed, demoted |-> st.fresh > 0, heap |-> st.heap]
\* What it leaves when it returns or raises before the loop.
Unbuilt(connector, exc) ==
    [t |-> ConditionNode(<<>>, connector), exc |-> exc, mixed |-> FALSE, demoted |-> FALSE,
     heap |-> (0 :> HeapNode(<<>>, connector))]

\* ConditionTree(conditions) for a collection of records.
ConditionTree(conditions) ==
    IF Len(conditions) = 0
    THEN Unbuilt(default, "none")
    ELSE IF Pids(conditions) \ Pks(conditions) # {}
    THEN Unbuilt(default, "ValueError")
    ELSE LET nodeIds == Pks(conditions) \cap Pids(conditions)
         IN  Built(BuildLoop(BuildStart(nodeIds), conditions, 1, nodeIds, TRUE), Len(conditions))

\* BaseRule._build_tree(conditions) for a collection of records.
BaseRule_build_tree(conditions) ==
    IF Len(conditions) = 0
    THEN Unbuilt(OR, "none")
    ELSE IF Pids(conditions) \ Pks(conditions) # {}
    THEN Unbuilt(default, "ValueError")
    ELSE LET nodeIds == Pids(conditions)
         IN  Built(BuildLoop(BuildStart(nodeIds), conditions, 1, nodeIds, FALSE), Len(conditions))

\* ------------------------------------------------------------- Condition
\* The Python values the selectors meet: None, the ints 0 and 1, strings and
\* dicts with at most the key "x".  A string is kept as s.split('.'): '0.x'
\* is Str(<<"0", "x">>) and the empty string is Str(<<"">>).
None == [ty |-> "None"]
IntV(n) == [ty |-> "int", n |-> n]
Str(parts) == [ty |-> "str", parts |-> parts]
EmptyStr == Str(<<"">>)
Dict(has, x) == [ty |-> "dict", has |-> has, x |-> x]
Atoms == {None, IntV(0), IntV(1)}
Dicts == {Dict(FALSE, None)} \cup {Dict(TRUE, a) : a \in Atoms}
Values == Atoms \cup Dicts

\* bool(v)
Truthy(v) ==
    CASE v.ty = "None" -> FALSE
      [] v.ty = "int" -> v.n # 0
      [] v.ty = "str" -> v # EmptyStr
      [] v.ty = "dict" -> v.has
      [] v.ty = "queryset" -> v.exists

\* (a variant of NEGATED_OPERATOR_MAP that stores > as < and >= as <=)
negated_map_mirrored ==
    ("!=" :> "==") @@ ("not like" :> "re") @@ (">" :> "<") @@ (">=" :> "<=") @@
    ("does not exist" :> "bool") @@ ("not in" :> "in")
NEGATED_OPERATOR_MAP ==
    ("!=" :> "==") @@ ("not like" :> "re") @@ (">" :> "<=") @@ (">=" :> "<") @@
    ("does not exist" :> "bool") @@ ("not in" :> "in")
OPERATOR_MAP ==
    NEGATED_OPERATOR_MAP @@
    ("==" :> "==") @@ ("like" :> "re") @@ ("exists" :> "bool") @@ ("<=" :> "<=") @@
    ("<" :> "<") @@ ("in" :> "in")
OperatorValues == {OPERATOR_MAP[k] : k \in DOMAIN OPERATOR_MAP}

\* re.compile(right, re.UNICODE)
Pattern(right) == [pattern |-> right]

\* Condition(left=, operator=, right=, negated=, value=); kw.right is
\* EmptyStr when no right is given.
Condition_init(kw) ==
    LET negated == IF kw.operator \in DOMAIN NEGATED_OPERATOR_MAP THEN ~kw.negated ELSE kw.negated
        known == kw.operator \in DOMAIN OPERATOR_MAP \/ kw.operator \in OperatorValues
        operator == IF kw.operator \in DOMAIN OPERATOR_MAP THEN OPERATOR_MAP[kw.operator]
                    ELSE kw.operator
        self == [left |-> kw.left, operator |-> operator,
                 right |-> IF operator = "re" THEN Pattern(kw.right) ELSE kw.right,
                 negated |-> negated,
                 value |-> IF Truthy(kw.value) THEN kw.value ELSE EmptyStr]
    IN  IF ~known THEN [c |-> self, exc |-> "NotImplementedError"]
        ELSE IF operator # "bool" /\ kw.right = EmptyStr
        THEN [c |-> self, exc |-> "ValueError"]
        ELSE [c |-> self, exc |-> "none"]

\* condition.negate()
Condition_negate(self) == [self EXCEPT !.negated = ~@]

\* get_value(obj, chain, i): None for a key or an attribute that is missing.
RECURSIVE get_value(_, _, _)
get_value(obj, chain, i) ==
    IF i >= Len(chain) \/ obj = None THEN obj
    ELSE IF chain[i + 1] = "" THEN get_value(obj, chain, i + 1)
    ELSE IF obj.ty = "dict"
    THEN get_value(IF obj.has /\ chain[i + 1] = "x" THEN obj.x ELSE None, chain, i + 1)
    ELSE get_value(None, chain, i + 1)

Digits == ("0" :> 0) @@ ("1" :> 1)

\* model.objects.filter(**filters) and model.objects.all() on the one model
\* the store knows, which has one row, with x = 1.
QuerySet(filters) ==
    [ty |-> "queryset", filters |-> filters,
     exists |-> (filters.ty = "dict" /\ filters.has) => filters.x = IntV(1)]

\* self._get_mod(model, extra): the filters are self.value itself, and a key
\* of it that extra has too is assigned extra's value.  value is self.value
\* as the call leaves it.
Condition_get_mod(self, model, extra) ==
    IF Len(model) < 2 THEN [obj |-> None, value |-> self.value, exc |-> "TypeError"]
    ELSE IF model # <<"contenttypes", "contenttype">>
    THEN [obj |-> None, value |-> self.value, exc |-> "DoesNotExist"]
    ELSE IF ~Truthy(self.value)
    THEN [obj |-> QuerySet(None), value |-> self.value, exc |-> "none"]
    ELSE IF self.value.ty # "dict"
    THEN [obj |-> None, value |-> self.value, exc |-> "NotImplementedError"]
    ELSE LET filters == IF extra.has THEN Dict(TRUE, extra.x) ELSE self.value
         IN  [obj |-> QuerySet(filters), value |-> filters, exc |-> "none"]

\* self._select(selector, objects, extra); extra is the dict of the keywords.
\* A compiled pattern has a split of its own: pattern.split('.') is ['.'] or
\* ['', ''], neither of which names a selector type.
Condition_select(self, selector, objects, extra) ==
    LET s == IF "ty" \in DOMAIN selector THEN selector.parts ELSE <<"">>
        stype == s[1]
        field == SubSeq(s, 2, Len(s))
        mod == Condition_get_mod(self, SubSeq(field, 1, IF Len(field) < 2 THEN Len(field) ELSE 2),
                                 extra)
        value == self.value
    IN  IF "pattern" \in DOMAIN selector
        THEN [obj |-> None, field |-> <<>>, exc |-> "NotImplementedError", value |-> value]
        ELSE IF "ty" \notin DOMAIN selector
        THEN [obj |-> None, field |-> <<>>, exc |-> "AttributeError", value |-> value]
        ELSE IF stype \in DOMAIN Digits
        THEN IF Digits[stype] + 1 > Len(objects)
             THEN [obj |-> None, field |-> field, exc |-> "IndexError", value |-> value]
             ELSE [obj |-> objects[Digits[stype] + 1], field |-> field, exc |-> "none",
                   value |-> value]
        ELSE IF stype = "extra"
        THEN [obj |-> extra, field |-> field, exc |-> "none", value |-> value]
        ELSE IF stype = "const"
        THEN [obj |-> self.value, field |-> field, exc |-> "none", value |-> value]
        ELSE IF stype = "model"
        THEN [obj |-> mod.obj, field |-> SubSeq(field, 3, Len(field)), exc |-> mod.exc,
              value |-> mod.value]
        ELSE [obj |-> None, field |-> field, exc |-> "NotImplementedError", value |-> value]

\* left in right; the strings met here are empty.
Contains(left, right) ==
    CASE right.ty = "dict" ->
            IF left.ty = "dict" THEN [v |-> FALSE, exc |-> "TypeError"]
            ELSE [v |-> FALSE, exc |-> "none"]
      [] right.ty = "queryset" -> [v |-> FALSE, exc |-> "none"]
      [] right.ty = "str" ->
            IF left.ty = "str" THEN [v |-> left = EmptyStr \/ left = right, exc |-> "none"]
            ELSE [v |-> FALSE, exc |-> "TypeError"]
      [] OTHER -> [v |-> FALSE, exc |-> "TypeError"]

\* self._eval(left, right), for the operators ==, <, <=, in and bool; < and
\* <= are given ints only.
Condition_eval(self, left, right) ==
    IF self.operator = "==" THEN [v |-> left = right, exc |-> "none"]
    ELSE IF self.operator \in {"<", "<="}
    THEN IF left.ty = "int" /\ right.ty = "int"
         THEN [v |-> IF self.operator = "<" THEN left.n < right.n ELSE left.n <= right.n,
               exc |-> "none"]
         ELSE [v |-> FALSE, exc |-> "TypeError"]
    ELSE IF self.operator = "in" THEN Contains(left, right)
    ELSE IF self.operator = "bool" THEN [v |-> Truthy(left), exc |-> "none"]
    ELSE [v |-> FALSE, exc |-> "NotImplementedError"]

\* self._evaluate(objects, extra): nothing is caught on the way.  self is
\* the condition as the call leaves it.
Condition_evaluate(self, objects, extra) ==
    LET l == Condition_select(self, self.left, objects, extra)
        afterLeft == [self EXCEPT !.value = l.value]
        r == Condition_select(afterLeft, self.right, objects, extra)
        afterRight == [self EXCEPT !.value = r.value]
        result == Condition_eval(self, get_value(l.obj, l.field, 0), get_value(r.obj, r.field, 0))
    IN  IF l.exc # "none" THEN [v |-> FALSE, exc |-> l.exc, self |-> afterLeft]
        ELSE IF r.exc # "none" THEN [v |-> FALSE, exc |-> r.exc, self |-> afterRight]
        ELSE IF result.exc # "none" THEN [v |-> FALSE, exc |-> result.exc, self |-> afterRight]
        ELSE [v |-> IF self.negated THEN ~result.v ELSE result.v, exc |-> "none",
              self |-> afterRight]

\* ------------------------------------------------------- deferred values
\* The names bound at module level in deferred.py.
DeferredGlobals ==
    {"abc", "re", "six", "ContentType", "__all__", "DeferredValue", "DeferredDict",
     "DeferredList", "ChainError", "Selector", "Function"}

ListV(items) == [ty |-> "list", items |-> items]

\* A deferred node carries the identity id(self) as id.
IsDeferred(x) == "cls" \in DOMAIN x
ObjectType(i) == [k |-> "objects", i |-> i]
ExtraType == [k |-> "extra"]
ConstType(arg) == [k |-> "const", arg |-> arg]
\* ('model', arg), the bare name 'const', and the class a model name stands for.
ModelType(arg) == [k |-> "model", arg |-> arg]
ConstName == [k |-> "name", name |-> "const"]
ModelClass(arg) == [ty |-> "model", name |-> arg]
\* The natural keys ContentType.objects.get_by_natural_key finds.
ContentTypes == {"contenttypes.contenttype"}
Selector(id, selector_type, chain) ==
    [cls |-> "Selector", id |-> id, stype |-> selector_type, chain |-> chain]
DeferredList(id, items) == [cls |-> "DeferredList", id |-> id, items |-> items]

RECURSIVE SumInts(_, _)
SumInts(items, i) == IF i > Len(items) THEN 0 ELSE items[i].n + SumInts(items, i + 1)

\* self.func(*args) for FUNCS['sum'].
ApplyFunc(name, args) ==
    IF /\ name = "sum"
       /\ Len(args) = 1
       /\ args[1].ty = "list"
       /\ \A i \in 1..Len(args[1].items) : args[1].items[i].ty = "int"
    THEN [v |-> IntV(SumInts(args[1].items, 1)), exc |-> "none"]
    ELSE [v |-> None, exc |-> "TypeError"]

RECURSIVE DeferredValue_get_value(_, _)

\* Selector(selector_type, chain): set_first refuses a chain on a const
\* selector and a model that is not found.
Selector_init(id, selector_type, chain) ==
    [s |-> Selector(id, selector_type, chain),
     exc |-> IF IsDeferred(selector_type) THEN "none"
             ELSE IF selector_type.k \in {"const", "name"} /\ chain # <<>> THEN "ValueError"
             ELSE IF selector_type.k = "model" /\ selector_type.arg \notin ContentTypes
             THEN "ValueError"
             ELSE "none"]

\* self.first(info), info None when maybe_const calls it.
Selector_first(self, info) ==
    IF IsDeferred(self.stype)
    THEN IF "objects" \notin DOMAIN info THEN [v |-> None, exc |-> "TypeError", info |-> info]
         ELSE DeferredValue_get_value(self.stype, info)
    ELSE IF self.stype.k = "const" THEN [v |-> self.stype.arg, exc |-> "none", info |-> info]
    ELSE IF self.stype.k = "name" THEN [v |-> None, exc |-> "none", info |-> info]
    ELSE IF self.stype.k = "model"
    THEN [v |-> ModelClass(self.stype.arg), exc |-> "none", info |-> info]
    ELSE IF "objects" \notin DOMAIN info THEN [v |-> None, exc |-> "TypeError", info |-> info]
    ELSE IF self.stype.k = "objects"
    THEN IF self.stype.i + 1 > Len(info.objects)
         THEN [v |-> None, exc |-> "IndexError", info |-> info]
         ELSE [v |-> info.objects[self.stype.i + 1], exc |-> "none", info |-> info]
    ELSE [v |-> info.extra, exc |-> "none", info |-> info]

\* (a variant of Selector.maybe_const that folds without looking at the chain)
maybe_const_ignoring_chain(self, root) ==
    IF IsDeferred(self.stype) THEN root
    ELSE IF self.stype.k \in {"const", "model"} THEN Selector_first(self, None).v
    ELSE self
\* Selector.maybe_const(), root what self.stype.maybe_const() returns.
Selector_maybe_const(self, root) ==
    IF IsDeferred(self.stype) THEN IF self.chain = <<>> THEN root ELSE self
    ELSE IF self.stype.k = "const" \/ (self.stype.k = "model" /\ self.chain = <<>>)
    THEN Selector_first(self, None).v
    ELSE self

\* x.maybe_const() of DeferredList, Selector and Function.
RECURSIVE maybe_const(_)
maybe_const(x) ==
    IF x.cls = "DeferredList"
    THEN LET result == [i \in 1..Len(x.items) |->
                           IF IsDeferred(x.items[i]) THEN maybe_const(x.items[i])
                           ELSE x.items[i]]
         IN  IF \E i \in 1..Len(result) : IsDeferred(result[i]) THEN x ELSE ListV(result)
    ELSE IF x.cls = "Selector"
    THEN Selector_maybe_const(x, IF IsDeferred(x.stype) THEN maybe_const(x.stype) ELSE None)
    ELSE IF ~IsDeferred(x.args) THEN ApplyFunc(x.name, x.args.items).v ELSE x

\* Function(func, args)
Function(id, func, args) ==
    [cls |-> "Function", id |-> id, name |-> func,
     args |-> IF IsDeferred(args) THEN maybe_const(args) ELSE args]

\* The loop over the getters of a chain: obj[getter], else getattr.
RECURSIVE ChainWalk(_, _, _)
ChainWalk(obj, chain, i) ==
    IF i > Len(chain) THEN [v |-> obj, exc |-> "none"]
    ELSE IF obj.ty = "dict" /\ obj.has /\ chain[i] = "x" THEN ChainWalk(obj.x, chain, i + 1)
    ELSE [v |-> None, exc |-> "ChainError"]

\* Selector._get_value(info): whatever is raised inside comes out as a
\* ChainError; the loop reads the bare name `chain`.
Selector_get_value(self, info) ==
    LET obj == Selector_first(self, info)
    IN  IF obj.exc # "none" THEN [v |-> None, exc |-> "ChainError", info |-> obj.info]
        ELSE IF "chain" \notin DeferredGlobals
        THEN [v |-> None, exc |-> "ChainError", info |-> obj.info]
        ELSE LET r == ChainWalk(obj.v, self.chain, 1)
             IN  [v |-> r.v, exc |-> r.exc, info |-> obj.info]

RECURSIVE DeferredList_get_value(_, _, _, _)
RECURSIVE Function_get_value(_, _)

\* DeferredValue.get_value(info): info[id(self)] when it is there, else
\* _get_value(info), stored when it returns.  info.runs counts the
\* _get_value runs of each node in this context.
DeferredValue_get_value(self, info) ==
    IF info.memo[self.id].ty # "unset"
    THEN [v |-> info.memo[self.id], exc |-> "none", info |-> info]
    ELSE LET started == [info EXCEPT !.runs[self.id] = @ + 1]
             r == IF self.cls = "Selector" THEN Selector_get_value(self, started)
                  ELSE IF self.cls = "DeferredList"
                  THEN DeferredList_get_value(self, started, 1, <<>>)
                  ELSE Function_get_value(self, started)
         IN  IF r.exc # "none" THEN r
             ELSE [r EXCEPT !.info.memo[self.id] = r.v]

\* DeferredList._get_value(info)
DeferredList_get_value(self, info, i, acc) ==
    IF i > Len(self.items) THEN [v |-> ListV(acc), exc |-> "none", info |-> info]
    ELSE IF IsDeferred(self.items[i])
    THEN LET r == DeferredValue_get_value(self.items[i], info)
         IN  IF r.exc # "none" THEN r
             ELSE DeferredList_get_value(self, r.info, i + 1, Append(acc, r.v))
    ELSE DeferredList_get_value(self, info, i + 1, Append(acc, self.items[i]))

\* Function._get_value(info): self.args.get_value, which a plain list of
\* constants does not have.
Function_get_value(self, info) ==
    IF ~IsDeferred(self.args) THEN [v |-> None, exc |-> "AttributeError", info |-> info]
    ELSE LET args == DeferredValue_get_value(self.args, info)
         IN  IF args.exc # "none" THEN args
             ELSE LET r == ApplyFunc(self.name, args.v.items)
                  IN  [v |-> r.v, exc |-> r.exc, info |-> args.info]

\* ------------------------------------------------------------- rule text
\* A text is kept as the sequence of its pieces: Tok(t, n, s) is a piece of
\* kind t with the number n or the name s in it ('object:0' is
\* Tok("object:", 0, ""), '.x' is Tok(".", 0, "x"), '\1' is Tok("\\", 1, "")).
Tok(t, n, s) == [t |-> t, n |-> n, s |-> s]
T(t) == Tok(t, 0, "")
Space == T(" ")

\* A Condition as a child of a tree.
CondLeaf(c) == [kind |-> "cond", c |-> c]
IsCondition(x) == "kind" \in DOMAIN x /\ x.kind = "cond"
IsTree(x) == "kind" \in DOMAIN x /\ x.kind = "node"

\* The attributes a Condition of rules/core.py has, and those of a Selector.
ConditionAttrs ==
    {"NEGATED_OPERATOR_MAP", "OPERATOR_MAP", "KWARGS", "KWARG_OP_MAP", "parse_kwarg",
     "parse_kwargs", "C", "__init__", "__str__", "negate", "value_as_dict", "_get_mod",
     "_try_match_type", "_eval", "evaluate", "_evaluate", "_select",
     "left", "operator", "right", "negated", "value"}
SelectorAttrs ==
    {"stype", "chain", "first", "__init__", "set_first", "maybe_const", "_get_value",
     "get_value", "__eq__", "__ne__", "__hash__"}

\* ---------------------------------------------------------------- formatter
\* `deferred` is the list [[text, ...], obj, ...]: strs is its first element,
\* objs are the others.  Every step yields the text, the exception raised
\* and the list as the step left it.
NoDeferred == [strs |-> <<>>, objs |-> <<>>]
Formatted(text, deferred) == [s |-> text, exc |-> "none", deferred |-> deferred]
FormatRaises(exc, deferred) == [s |-> <<>>, exc |-> exc, deferred |-> deferred]

\* pre + r + post, for a formatted part r.
Wrap(r, pre, post) ==
    IF r.exc # "none" THEN r ELSE Formatted(pre \o r.s \o post, r.deferred)

\* item == obj for an item of `deferred`: Selector.__eq__, Function.__eq__.
DeferredEquals(item, obj) ==
    /\ IsDeferred(obj)
    /\ \/ item.id = obj.id
       \/ /\ item.cls = "Selector" /\ obj.cls = "Selector"
          /\ item.stype = obj.stype /\ item.chain = obj.chain
       \/ /\ item.cls = "Function" /\ obj.cls = "Function"
          /\ item.name = obj.name /\ item.args = obj.args

\* deferred.index(obj), counted among objs; 0 when it raises ValueError.
DeferredIndex(deferred, obj) ==
    LET found == {p \in 1..Len(deferred.objs) : DeferredEquals(deferred.objs[p], obj)}
    IN  IF found = {} THEN 0 ELSE CHOOSE p \in found : \A q \in found : p <= q

RECURSIVE _format(_, _)
RECURSIVE _format_deferred(_, _)
RECURSIVE FormatJoin(_, _, _, _, _)
RECURSIVE FormatJoinNext(_, _, _, _, _)
RECURSIVE ChainText(_, _)

\* sep.join(_format(v, deferred) for v in items): r is the item just
\* formatted.
FormatJoinNext(items, i, sep, acc, r) ==
    IF r.exc # "none" THEN r
    ELSE FormatJoin(items, i + 1, sep, r.deferred, IF i = 1 THEN r.s ELSE acc \o sep \o r.s)
FormatJoin(items, i, sep, deferred, acc) ==
    IF i > Len(items) THEN Formatted(acc, deferred)
    ELSE FormatJoinNext(items, i, sep, acc, _format(items[i], deferred))

_format_list(items, deferred) ==
    Wrap(FormatJoin(items, 1, <<T(",")>>, deferred, <<>>), <<T("[")>>, <<T("]")>>)

_format_dict(obj, deferred) ==
    IF obj.has
    THEN Wrap(_format(obj.x, deferred), <<T("{"), Tok("key", 0, "x"), T(":")>>, <<T("}")>>)
    ELSE Formatted(<<T("{"), T("}")>>, deferred)

\* '.' + ';.'.join(chain) + ';' for a chain of plain getters; nothing for
\* an empty chain.
ChainText(chain, i) ==
    IF i > Len(chain) THEN <<>>
    ELSE <<Tok(".", 0, chain[i]), T(";")>> \o ChainText(chain, i + 1)

\* The stype part of _format_sel: a selector whose stype is neither an int,
\* a deferred value nor 'extra' is formatted from obj.arg.
SelectorHead(obj, deferred) ==
    IF IsDeferred(obj.stype) THEN _format_deferred(obj.stype, deferred)
    ELSE IF obj.stype.k = "objects"
    THEN Formatted(<<Tok("object:", obj.stype.i, "")>>, deferred)
    ELSE IF obj.stype.k = "extra" THEN Formatted(<<T("extra")>>, deferred)
    ELSE IF "arg" \notin SelectorAttrs THEN FormatRaises("AttributeError", deferred)
    ELSE Wrap(_format(obj.stype.arg, deferred), <<T("const:")>>, <<>>)

_format_sel(obj, deferred) ==
    Wrap(SelectorHead(obj, deferred), <<>>, ChainText(obj.chain, 1))

_format_func(obj, deferred) ==
    Wrap(FormatJoin(obj.args.items, 1, <<T(",")>>, deferred, <<>>),
         <<Tok("func(", 0, obj.name)>>, <<T(")")>>)

\* The except branch of _format_deferred: v is the value formatted.
AppendDeferred(obj, v) ==
    IF v.exc # "none" THEN v
    ELSE Formatted(<<Tok("\\", Len(v.deferred.strs), "")>>,
                   [strs |-> Append(v.deferred.strs, v.s),
                    objs |-> Append(v.deferred.objs, obj)])

\* _format_deferred: the backreference of an equal value met before, else
\* the value is formatted and appended.
_format_deferred(obj, deferred) ==
    IF DeferredIndex(deferred, obj) > 0
    THEN Formatted(<<Tok("\\", DeferredIndex(deferred, obj) - 1, "")>>, deferred)
    ELSE IF IsDeferred(obj) /\ obj.cls = "Selector"
    THEN AppendDeferred(obj, _format_sel(obj, deferred))
    ELSE IF IsDeferred(obj) /\ obj.cls = "Function"
    THEN AppendDeferred(obj, _format_func(obj, deferred))
    ELSE FormatRaises("ValueError", deferred)

\* _format_term (no operand of the inputs has the plain string 'const' as
\* its stype).
_format_term(obj, deferred) == _format_deferred(obj, deferred)

Negation(self) == IF self.negated THEN <<T("NOT"), Space>> ELSE <<>>

\* _format_cond once both operands are formatted.
FormatBinary(self, left, right) ==
    IF right.exc # "none" THEN right
    ELSE Formatted(Negation(self) \o left.s \o <<Space, Tok("op", 0, self.operator), Space>>
                   \o right.s, right.deferred)

\* _format_cond once the left operand is formatted: obj.is_unary is read.
FormatOperator(self, left) ==
    IF left.exc # "none" THEN left
    ELSE IF "is_unary" \notin ConditionAttrs THEN FormatRaises("AttributeError", left.deferred)
    ELSE IF self.operator = "bool"
    THEN Formatted(Negation(self) \o left.s \o <<Space, Tok("op", 0, self.operator)>>,
                   left.deferred)
    ELSE FormatBinary(self, left, _format_term(self.right, left.deferred))

_format_cond(obj, deferred) == FormatOperator(obj.c, _format_term(obj.c.left, deferred))

_format_tree(obj, deferred) ==
    Wrap(FormatJoin(obj.children, 1, <<Space, T(obj.connector), Space>>, deferred, <<>>),
         <<T("(")>>, <<T(")")>>)

_format(obj, deferred) ==
    IF "ty" \in DOMAIN obj
    THEN CASE obj.ty = "None" -> Formatted(<<T("null")>>, deferred)
           [] obj.ty = "int" -> Formatted(<<Tok("num", obj.n, "")>>, deferred)
           [] obj.ty = "str" -> Formatted(<<Tok("str", 0, "")>>, deferred)
           [] obj.ty = "dict" -> _format_dict(obj, deferred)
           [] obj.ty = "list" -> _format_list(obj.items, deferred)
           [] OTHER -> FormatRaises("ValueError", deferred)
    ELSE IF IsDeferred(obj)
    THEN IF obj.cls = "DeferredList" THEN _format_list(obj.items, deferred)
         ELSE _format_deferred(obj, deferred)
    ELSE IF IsCondition(obj) THEN _format_cond(obj, deferred)
    ELSE IF IsTree(obj) THEN _format_tree(obj, deferred)
    ELSE FormatRaises("ValueError", deferred)

RECURSIVE JoinTexts(_, _)
JoinTexts(strs, i) ==
    IF i > Len(strs) THEN <<>>
    ELSE (IF i = 1 THEN <<>> ELSE <<T(",")>>) \o strs[i] \o JoinTexts(strs, i + 1)

\* The end of format_rule: `if deferred:` tests the list [[...], obj, ...],
\* which holds at least its first element.
WithPrefix(r) ==
    IF r.exc # "none" THEN [s |-> <<>>, exc |-> r.exc]
    ELSE IF 1 + Len(r.deferred.objs) > 0
    THEN [s |-> <<T("with(")>> \o JoinTexts(r.deferred.strs, 1) \o <<T(")"), Space>> \o r.s,
          exc |-> "none"]
    ELSE [s |-> r.s, exc |-> "none"]

format_rule(obj) == WithPrefix(_format_tree(obj, NoDeferred))

\* ------------------------------------------------------------------- parser
\* A parser yields (value, index) or raises; NotImplemented is the value of a
\* parser that does not apply.
NotImplemented == [ty |-> "NotImplemented"]
Parsed(v, index) == [v |-> v, index |-> index, exc |-> "none"]
ParseRaises(exc, index) == [v |-> NotImplemented, index |-> index, exc |-> exc]
At(text, i) == IF i <= Len(text) THEN text[i] ELSE T("")

RECURSIVE SkipSpace(_, _)
SkipSpace(text, i) == IF i <= Len(text) /\ text[i] = Space THEN SkipSpace(text, i + 1) ELSE i

\* _parse_selector_chain, for plain getters.
RECURSIVE _parse_selector_chain(_, _, _)
_parse_selector_chain(text, index, chain) ==
    IF At(text, index).t = "."
    THEN _parse_selector_chain(text,
                               IF At(text, index + 1) = T(";") THEN index + 2 ELSE index + 1,
                               Append(chain, At(text, index).s))
    ELSE Parsed(chain, index)

RECURSIVE parse_value(_, _, _)
RECURSIVE parse_selector(_, _, _)

\* The end of parse_selector for 'const:': value is what follows it.  The
\* object made at a place of the text has that place as its identity.
ConstSelector(index, value) ==
    IF value.exc # "none" THEN value
    ELSE IF value.v = NotImplemented THEN ParseRaises("ValueError", value.index)
    ELSE Parsed(Selector(index, ConstType(value.v), <<>>), value.index)

\* The end of parse_selector for the other types: chain is the chain read.
ChainedSelector(index, stype, chain) ==
    IF IsDeferred(stype) /\ Len(chain.v) = 0 THEN Parsed(stype, chain.index)
    ELSE Parsed(Selector(index, stype, chain.v), chain.index)

\* parse_selector; deferred is pinfo['deferred'].
parse_selector(deferred, text, index) ==
    IF At(text, index).t \notin {"object:", "extra", "const:", "\\"}
    THEN Parsed(NotImplemented, index)
    ELSE IF At(text, index).t = "\\" /\ At(text, index).n + 1 > Len(deferred)
    THEN ParseRaises("ValueError", index + 1)
    ELSE IF At(text, index).t = "const:"
    THEN ConstSelector(index, parse_value(deferred, text, index + 1))
    ELSE ChainedSelector(index,
                         IF At(text, index).t = "\\" THEN deferred[At(text, index).n + 1]
                         ELSE IF At(text, index).t = "extra" THEN ExtraType
                         ELSE ObjectType(At(text, index).n),
                         _parse_selector_chain(text, index + 1, <<>>))

\* parse_value once parse_selector has had its turn: parse_object reads
\* string[index], which raises at the end of the text; then the number and
\* const parsers.
OtherValue(text, index, sel) ==
    IF sel.exc # "none" \/ sel.v # NotImplemented THEN sel
    ELSE IF index > Len(text) THEN ParseRaises("IndexError", index)
    ELSE IF At(text, index).t = "num" THEN Parsed(IntV(At(text, index).n), index + 1)
    ELSE IF At(text, index).t = "null" THEN Parsed(None, index + 1)
    ELSE Parsed(NotImplemented, index)

\* parse_value: the value parsers in turn, for the selectors, numbers and
\* null of the texts.
parse_value(deferred, text, index) ==
    OtherValue(text, index, parse_selector(deferred, text, index))

\* _parse_list as parse_deferred_list calls it: obj is the list being read,
\* which is pinfo['deferred'] too, and term is ')'.
RECURSIVE _parse_list(_, _, _, _)
RECURSIVE ListItem(_, _, _)
ListItem(text, obj, r) ==
    IF r.exc # "none" THEN r
    ELSE IF r.v = NotImplemented THEN ParseRaises("ValueError", r.index)
    ELSE _parse_list(text, r.index, FALSE, Append(obj, r.v))
_parse_list(text, index, expect, obj) ==
    IF index > Len(text) THEN ParseRaises("ValueError", index)
    ELSE IF text[index] = Space THEN _parse_list(text, index + 1, expect, obj)
    ELSE IF expect THEN ListItem(text, obj, parse_selector(obj, text, index))
    ELSE IF text[index] = T(")") THEN Parsed(obj, index + 1)
    ELSE IF Len(obj) = 0 THEN _parse_list(text, index, TRUE, obj)
    ELSE IF text[index] = T(",") THEN _parse_list(text, index + 1, TRUE, obj)
    ELSE ParseRaises("ValueError", index)

parse_deferred_list(text, index) ==
    IF At(text, index) = T("with(") THEN _parse_list(text, index + 1, TRUE, <<>>)
    ELSE Parsed(<<>>, index)

\* parse_operator: white space, then an operator.
parse_operator(text, index) ==
    IF SkipSpace(text, index) > index /\ At(text, SkipSpace(text, index)).t = "op"
    THEN Parsed(At(text, SkipSpace(text, index)), SkipSpace(text, index) + 1)
    ELSE Parsed(NotImplemented, index)

\* Selector(('const', value), ()) around a value that is not deferred.
AsSelector(index, v) == IF IsDeferred(v) THEN v ELSE Selector(index, ConstType(v), <<>>)

\* Condition(...) at the end of parse_condition.
NewCondition(made, index) ==
    IF made.exc # "none" THEN ParseRaises(made.exc, index)
    ELSE Parsed(CondLeaf(made.c), index)

\* parse_condition once the right operand is read at j.
ConditionRight(left, op, j, value) ==
    IF value.exc # "none" THEN value
    ELSE IF value.v = NotImplemented THEN ParseRaises("ValueError", value.index)
    ELSE NewCondition(Condition_init([left |-> left, operator |-> op.v.s,
                                      right |-> AsSelector(j, value.v),
                                      negated |-> FALSE, value |-> None]),
                      value.index)

\* parse_condition once the operator is read: asks Condition.is_unary(op);
\* j is where the white space behind the operator ends.
ConditionOperator(deferred, text, left, op, j) ==
    IF op.v = NotImplemented THEN ParseRaises("ValueError", op.index)
    ELSE IF "is_unary" \notin ConditionAttrs THEN ParseRaises("AttributeError", op.index)
    ELSE IF op.v.s \in {"exists", "does not exist", "bool"}
    THEN NewCondition(Condition_init([left |-> left, operator |-> op.v.s, right |-> EmptyStr,
                                      negated |-> FALSE, value |-> None]),
                      op.index)
    ELSE IF j = op.index THEN ParseRaises("ValueError", j)
    ELSE ConditionRight(left, op, j, parse_value(deferred, text, j))

\* parse_condition once the operator parser has run.
ConditionSpace(deferred, text, left, op) ==
    ConditionOperator(deferred, text, left, op, SkipSpace(text, op.index))

\* parse_condition once the left operand is read.
ConditionLeft(deferred, text, index, value) ==
    IF value.exc # "none" THEN value
    ELSE IF value.v = NotImplemented THEN Parsed(NotImplemented, value.index)
    ELSE ConditionSpace(deferred, text, AsSelector(index, value.v),
                        parse_operator(text, value.index))

parse_condition(deferred, text, index) ==
    ConditionLeft(deferred, text, index, parse_value(deferred, text, index))

\* result.negate() of what parse_tree has read: a subtree or a condition.
Negated(x) ==
    IF IsTree(x) THEN ConditionNode_negate(x)
    ELSE [t |-> CondLeaf(Condition_negate(x.c)), exc |-> "none"]

\* parse_tree: st is [node, conn, negate_next, expect, index]; each result
\* is added to node under the connector read last.
TreeDone(st) ==
    IF st.expect > 0 THEN ParseRaises("ValueError", st.index) ELSE Parsed(st.node, st.index)

RECURSIVE parse_tree(_, _, _)
RECURSIVE ParseTreeLoop(_, _, _)
RECURSIVE TreeAdd(_, _, _, _, _)
RECURSIVE TreeResult(_, _, _, _)
RECURSIVE TreeExpect(_, _, _, _)
RECURSIVE TreeConnector(_, _, _, _)

\* The ')' behind a subtree, white space before it skipped.
Close(text, sub) ==
    IF sub.exc # "none" THEN sub
    ELSE IF At(text, SkipSpace(text, sub.index)) # T(")")
    THEN ParseRaises("ValueError", SkipSpace(text, sub.index))
    ELSE Parsed(sub.v, SkipSpace(text, sub.index) + 1)

\* node.add(result, conn), result negated first when NOT stood before it.
TreeAdd(deferred, text, st, index, neg) ==
    IF neg.exc # "none" THEN ParseRaises(neg.exc, index)
    ELSE ParseTreeLoop(deferred, text,
                       [st EXCEPT !.node = add(@, neg.t, st.conn), !.negate_next = FALSE,
                                  !.expect = 0, !.index = index])

\* What parse_tree does with a result r.
TreeResult(deferred, text, st, r) ==
    IF r.exc # "none" THEN r
    ELSE IF r.v = NotImplemented
    THEN IF st.expect < 0 THEN TreeDone([st EXCEPT !.index = r.index])
         ELSE ParseRaises("ValueError", r.index)
    ELSE TreeAdd(deferred, text, st, r.index,
                 IF st.negate_next THEN Negated(r.v) ELSE [t |-> r.v, exc |-> "none"])

\* A condition or subtree is expected; j is where the white space ends.
TreeExpect(deferred, text, st, j) ==
    IF At(text, j) = T("NOT") /\ At(text, j + 1) = Space
    THEN ParseTreeLoop(deferred, text,
                       [st EXCEPT !.index = SkipSpace(text, j + 1), !.negate_next = ~@])
    ELSE IF At(text, j) = T("(")
    THEN TreeResult(deferred, text, st,
                    Close(text, parse_tree(deferred, text, SkipSpace(text, j + 1))))
    ELSE TreeResult(deferred, text, st, parse_condition(deferred, text, j))

\* A connector is expected: white space, AND or OR, white space.
TreeConnector(deferred, text, st, j) ==
    IF j > st.index /\ At(text, j).t \in Connectors /\ SkipSpace(text, j + 1) > j + 1
    THEN ParseTreeLoop(deferred, text,
                       [st EXCEPT !.conn = At(text, j).t, !.expect = 1,
                                  !.index = SkipSpace(text, j + 1)])
    ELSE TreeDone(st)

ParseTreeLoop(deferred, text, st) ==
    IF st.index > Len(text) THEN TreeDone(st)
    ELSE IF st.expect # 0 THEN TreeExpect(deferred, text, st, SkipSpace(text, st.index))
    ELSE TreeConnector(deferred, text, st, SkipSpace(text, st.index))

parse_tree(deferred, text, index) ==
    ParseTreeLoop(deferred, text,
                  [node |-> ConditionNode(<<>>, default), conn |-> default,
                   negate_next |-> FALSE, expect |-> 0 - 1, index |-> index])

\* RuleParser._parse from the start of the text: the with-list, the tree,
\* tree.collapse().
CollapseParsed(tr) ==
    IF tr.exc # "none" THEN [t |-> ConditionNode(<<>>, default), exc |-> tr.exc]
    ELSE ConditionNode_collapse(tr.v)
ParseTreeAfter(text, deferred) ==
    IF deferred.exc # "none" THEN [t |-> ConditionNode(<<>>, default), exc |-> deferred.exc]
    ELSE CollapseParsed(parse_tree(deferred.v, text, deferred.index))
parse_rule(text) == ParseTreeAfter(text, parse_deferred_list(text, SkipSpace(text, 1)))

\* ------------------------------------------------------------ rule checker
\* The continuations registered in the store, each by what a call of it
\* does: returns ("ok") or raises the exception named.
Registered ==
    [name \in {"cont1", "cont2", "cont3", "cont4"} |->
        CASE name = "cont1" -> "ok"
          [] name = "cont2" -> "ValueError"
          [] name = "cont3" -> "KeyError"
          [] name = "cont4" -> "NoContinuationError"]

\* ContinuationStore.__missing__ for a name: 'noop' and falsy names get the
\* noop continuation, any other name raises NoContinuationError.
ContinuationStore_missing(key) ==
    IF key = "noop" \/ key = "" THEN [v |-> "ok", exc |-> "none"]
    ELSE [v |-> "ok", exc |-> "NoContinuationError"]

\* rule.continue_(info, continuations): the continuation named by the rule is
\* looked up in the store and called with the rule, the info and the rule's
\* value.  ran tells whether the continuation was called.
continue_(rule, continuations) ==
    LET found == IF rule.continuation \in DOMAIN continuations
                 THEN [v |-> continuations[rule.continuation], exc |-> "none"]
                 ELSE ContinuationStore_missing(rule.continuation)
    IN  IF found.exc # "none" THEN [exc |-> found.exc, ran |-> FALSE]
        ELSE [exc |-> IF found.v = "ok" THEN "none" ELSE found.v, ran |-> TRUE]

\* The loop of RuleChecker.check over the matches from the i-th on.
\* self.continuations exists between __enter__ and __exit__ only; reading it
\* otherwise raises AttributeError inside the try, which is not caught.
\* The outcome: the exception that left check, the number of rules the loop
\* came to, and the rules whose continuation was called, in order.
RECURSIVE RuleChecker_check(_, _, _, _)
\* (a variant of the loop without the except clause: a missing continuation
\* ends the check as any other exception does)
check_without_except(matches, hasContinuations, i, invoked) ==
    IF i > Len(matches)
    THEN [exc |-> "none", attempted |-> Len(matches), invoked |-> invoked]
    ELSE IF ~hasContinuations
    THEN [exc |-> "AttributeError", attempted |-> i, invoked |-> invoked]
    ELSE LET r == continue_(matches[i], Registered)
             now == IF r.ran THEN Append(invoked, i) ELSE invoked
         IN  IF r.exc = "none"
             THEN RuleChecker_check(matches, hasContinuations, i + 1, now)
             ELSE [exc |-> r.exc, attempted |-> i, invoked |-> now]
RuleChecker_check(matches, hasContinuations, i, invoked) ==
    IF i > Len(matches)
    THEN [exc |-> "none", attempted |-> Len(matches), invoked |-> invoked]
    ELSE IF ~hasContinuations
    THEN [exc |-> "AttributeError", attempted |-> i, invoked |-> invoked]
    ELSE LET r == continue_(matches[i], Registered)
             now == IF r.ran THEN Append(invoked, i) ELSE invoked
         IN  IF r.exc \in {"none", "NoContinuationError"}
             THEN RuleChecker_check(matches, hasContinuations, i + 1, now)
             ELSE [exc |-> r.exc, attempted |-> i, invoked |-> now]

\* ------------------------------------------------------- rule collections
\* A rule of a collection: a BaseRule of models.py ("rule"), whose _match
\* takes objects and extra, or the Dummy of the tests ("dummy"), whose _match
\* takes info and returns the dummy itself when v holds, else False.  A rule
\* may have no weight attribute.  What _match returns is the rule's id, 0 for
\* False.
BareRule(id, kind, v) == [id |-> id, kind |-> kind, v |-> v]
WeightedRule(id, kind, v, weight) == [id |-> id, kind |-> kind, v |-> v, weight |-> weight]

_sortkey(rule) == IF "weight" \in DOMAIN rule THEN rule.weight ELSE 0

\* sorted(iterable, key=_sortkey): stable.
RECURSIVE sorted(_, _, _)
sorted(iterable, i, acc) ==
    IF i > Len(iterable) THEN acc
    ELSE LET r == iterable[i]
             before == SelectSeq(acc, LAMBDA a : _sortkey(a) <= _sortkey(r))
             after == SelectSeq(acc, LAMBDA a : _sortkey(a) > _sortkey(r))
         IN  sorted(iterable, i + 1, before \o <<r>> \o after)

\* RuleList.__new__, which RuleMutex takes over.
RuleList_new(iterable) == IF Len(iterable) = 0 THEN <<>> ELSE sorted(iterable, 1, <<>>)

\* r._match(info) as the collections call it: one positional argument.
Rule_match(r) ==
    IF r.kind = "rule" THEN [x |-> 0, exc |-> "TypeError"]
    ELSE [x |-> IF r.v THEN r.id ELSE 0, exc |-> "none"]

\* RuleList._matches(info): results are the matches so far, evaluated the
\* ids of the rules whose _match was called (x is not used).
RECURSIVE RuleList_matches(_, _, _, _)
RuleList_matches(self, i, results, evaluated) ==
    IF i > Len(self)
    THEN [call |-> "matches", x |-> 0, results |-> results, exc |-> "none",
          evaluated |-> evaluated]
    ELSE LET m == Rule_match(self[i])
             now == Append(evaluated, self[i].id)
         IN  IF m.exc # "none"
             THEN [call |-> "matches", x |-> 0, results |-> <<>>, exc |-> m.exc,
                   evaluated |-> now]
             ELSE RuleList_matches(self, i + 1,
                                   IF m.x # 0 THEN Append(results, m.x) ELSE results, now)

\* RuleMutex._match(info): x is 0 for False (results is not used).
RECURSIVE RuleMutex_match(_, _, _)
RuleMutex_match(self, i, evaluated) ==
    IF i > Len(self)
    THEN [call |-> "match", x |-> 0, results |-> <<>>, exc |-> "none", evaluated |-> evaluated]
    ELSE LET m == Rule_match(self[i])
             now == Append(evaluated, self[i].id)
         IN  IF m.exc # "none"
             THEN [call |-> "match", x |-> 0, results |-> <<>>, exc |-> m.exc, evaluated |-> now]
             ELSE IF m.x # 0
             THEN [call |-> "match", x |-> m.x, results |-> <<>>, exc |-> "none",
                   evaluated |-> now]
             ELSE RuleMutex_match(self, i + 1, now)

\* ------------------------------------------------------------ rule cache
\* A RuleCache: `sources` is the sourcesdict (key -> list of sources, the
\* empty list for a key it does not hold; a list it holds has its primary
\* source first), `store` the dict itself (key -> the value stored).  A
\* source is a callable that yields rules when called with the cache, a
\* list of rules, or an object with _match (a rule); the default source of
\* a key yields self.source.filter(trigger=key).
CacheKeys == {"hello", "goodbye"}
Source(id, kind, items) == [id |-> id, kind |-> kind, items |-> items]
Filtered(key) ==
    IF key = "hello" THEN <<WeightedRule(1, "dummy", TRUE, 1), BareRule(2, "dummy", TRUE)>>
    ELSE <<>>
RuleCache_get_default_source(key) == Source(key, "callable", Filtered(key))
NotStored == [has |-> FALSE, rules |-> <<>>]
Stored(rules) == [has |-> TRUE, rules |-> rules]
RuleCache_init == [sources |-> [k \in CacheKeys |-> <<>>], store |-> [k \in CacheKeys |-> NotStored]]

\* self.sources[key]: sourcesdict.__missing__ puts the default source in.
sourcesdict_getitem(self, key) ==
    IF self.sources[key] # <<>> THEN self
    ELSE [self EXCEPT !.sources[key] = <<RuleCache_get_default_source(key)>>]

RuleCache_add_source(self, key, source) ==
    [sourcesdict_getitem(self, key) EXCEPT !.sources[key] = Append(@, source)]
RuleCache_set_primary_source(self, key, source) ==
    [sourcesdict_getitem(self, key) EXCEPT !.sources[key][1] = source]

\* RuleCache.__setitem__: rules is [kind, items], the kind being "rule" for
\* an object with _match, "rulelist" for one with _matches, else "list".
RuleCache_setitem(self, key, rules) ==
    [self EXCEPT !.store[key] =
        Stored(IF rules.kind = "rulelist" THEN rules.items ELSE RuleList_new(rules.items))]

\* The loop of RuleCache.__missing__ over self.sources[key]: rules is the
\* list collected, called the ids of the sources that were called.
RECURSIVE MissingLoop(_, _, _, _)
MissingLoop(sources, i, rules, called) ==
    IF i > Len(sources) THEN [rules |-> rules, called |-> called]
    ELSE MissingLoop(sources, i + 1, rules \o sources[i].items,
                     IF sources[i].kind = "callable" THEN Append(called, sources[i].id)
                     ELSE called)

RuleCache_missing(self, key) ==
    LET c == sourcesdict_getitem(self, key)
        r == MissingLoop(c.sources[key], 1, <<>>, <<>>)
        c2 == RuleCache_setitem(c, key, [kind |-> "list", items |-> r.rules])
    IN  [self |-> c2, v |-> c2.store[key].rules, called |-> r.called, exc |-> "none"]

\* cache[key] without consulting the stored value.
getitem_always_missing(self, key) == RuleCache_missing(self, key)
\* cache[key]: the dict lookup, __missing__ only for a key it does not hold.
RuleCache_getitem(self, key) ==
    IF self.store[key].has
    THEN [self |-> self, v |-> self.store[key].rules, called |-> <<>>, exc |-> "none"]
    ELSE RuleCache_missing(self, key)

\* del cache[key]
RuleCache_delitem(self, key) ==
    IF self.store[key].has
    THEN [self |-> [self EXCEPT !.store[key] = NotStored], v |-> <<>>, called |-> <<>>,
          exc |-> "none"]
    ELSE [self |-> self, v |-> <<>>, called |-> <<>>, exc |-> "KeyError"]

\* -------------------------------------------------------- signal checker
\* SignalChecker.objects: a dict, here the set of its items [key, snap].  A
\* key is the tuple (sender, pk) or a bare pk; an instance is [pk, val], pk 0
\* for an instance that has none, and a snapshot is the instance as it was.
\* All instances are of the one model the checker tracks.
PairKey(sender, pk) == [tuple |-> TRUE, sender |-> sender, pk |-> pk]
PkKey(pk) == [tuple |-> FALSE, sender |-> "-", pk |-> pk]
Instance(pk, val) == [pk |-> pk, val |-> val]
HasKey(objects, key) == \E item \in objects : item.key = key
GetItem(objects, key) == (CHOOSE item \in objects : item.key = key).snap
SetItem(objects, key, snap) ==
    {item \in objects : item.key # key} \cup {[key |-> key, snap |-> snap]}
DelItem(objects, key) == {item \in objects : item.key # key}

\* What a handler did: the dict as it left it and the calls of self.check,
\* each [trigger, objects].
Handled(objects, checks) == [objects |-> objects, checks |-> checks]
Trigger(eventtype, sig) == [eventtype |-> eventtype, sig |-> sig]

\* SignalChecker._track
SignalChecker_track(objects, sender, obj) ==
    IF obj.pk # 0 THEN SetItem(objects, PairKey(sender, obj.pk), obj) ELSE objects

\* SignalChecker._check_update
_check_update(objects, sender, instance, sig) ==
    IF ~HasKey(objects, PkKey(instance.pk)) THEN Handled(objects, <<>>)
    ELSE LET original == GetItem(objects, PkKey(instance.pk))
             call == [trigger |-> Trigger("update", sig), objects |-> <<original, instance>>]
         IN  Handled(IF sig \in {"", "post_save"}
                     THEN SignalChecker_track(objects, sender, instance) ELSE objects,
                     <<call>>)

\* SignalChecker._check_create
_check_create(objects, sender, instance, sig) ==
    Handled(IF sig \in {"", "post_save"}
            THEN SignalChecker_track(objects, sender, instance) ELSE objects,
            <<[trigger |-> Trigger("create", sig), objects |-> <<instance>>]>>)

_check_pres(objects, sender, i) ==
    IF i.pk # 0 THEN _check_update(objects, sender, i, "pre_save")
    ELSE _check_create(objects, sender, i, "pre_save")

_check_posts(objects, sender, i, created) ==
    IF created THEN _check_create(objects, sender, i, "")
    ELSE _check_update(objects, sender, i, "")

_check_pred(objects, sender, i) ==
    Handled(objects, <<[trigger |-> Trigger("delete", "pre_delete"), objects |-> <<i>>]>>)

_check_postd(objects, sender, i) ==
    Handled(IF HasKey(objects, PkKey(i.pk)) THEN DelItem(objects, PkKey(i.pk)) ELSE objects,
            <<[trigger |-> Trigger("delete", ""), objects |-> <<i>>]>>)

\* ------------------------------------------- occurrence-recording checker
\* The RuleChecker of context.py: self is [save_occurrences, need_pks,
\* occurrences, connected]; an occurrence is [id, signal]; the store is the
\* list of the occurrences written to the database, one entry per write.
Occurrence(id, signal) == [id |-> id, signal |-> signal]

\* The loop of RuleChecker._check_rules over the matches: made is the number
\* of occurrences made before, r [self, store] so far.
RECURSIVE _check_rules(_, _, _, _)
_check_rules(r, signal, made, nmatches) ==
    IF nmatches = 0 THEN r
    ELSE LET occ == Occurrence(made + 1, signal)
         IN  _check_rules(
                [self |-> [r.self EXCEPT !.occurrences = Append(@, occ)],
                 store |-> IF r.self.save_occurrences /\ r.self.need_pks
                           THEN Append(r.store, occ) ELSE r.store],
                signal, made + 1, nmatches - 1)

\* RuleChecker.__enter__ and __exit__: the signals are connected and
\* disconnected; __exit__ ends with Occurrence.objects.bulk_create.
RuleChecker_enter(self) == [self EXCEPT !.connected = TRUE]
RuleChecker_exit(self, store) ==
    [self |-> [self EXCEPT !.connected = FALSE],
     store |-> IF self.save_occurrences /\ ~self.need_pks /\ Len(self.occurrences) > 0
               THEN store \o self.occurrences ELSE store]

\* ------------------------------------------------------------------- state
VARIABLES
    tree,      \* the ConditionNode the calls are made on
    orig,      \* that node as it was constructed
    before,    \* that node as it was when the last call began
    calls,     \* the calls made on it so far, oldest first
    result     \* what the last call returned ("True"/"False"/"None") or raised

treeVars == <<tree, orig, before, calls, result>>

VARIABLES
    node,      \* the ConditionNode members are added to
    nbefore,   \* that node as it was when the last add began
    joined,    \* per direct child of node, the connector it was joined under
    lastAdd,   \* the last add: [kind, member, conn]
    addResult, \* what the last add returned ("None") or raised
    nadds      \* the number of adds made

addVars == <<node, nbefore, joined, lastAdd, addResult, nadds>>

VARIABLES
    conditions, \* the stored records a tree is built from, in query order
    builder,    \* which builder was called on them ("new" before any)
    built,      \* what it returned or raised: [t, exc, mixed, demoted]
    matched     \* what match on the built tree returned or raised ("None" before)

buildVars == <<conditions, builder, built, matched>>

VARIABLES
    condKw,     \* the keyword arguments the Condition was constructed with
    cond,       \* the Condition the calls are made on
    condArgs,   \* the (objects, extra) of its last evaluate call
    condCalls,  \* the calls made on it so far, oldest first
    condResult  \* what the last call returned ("True"/"False"/"None") or raised

condVars == <<condKw, cond, condArgs, condCalls, condResult>>

VARIABLES
    dnode,      \* the deferred node get_value is called on
    info,       \* the evaluation context: [objects, extra, memo, runs]
    dcalls,     \* what was done so far: "get", "change", "fresh"
    dresult     \* what the last get_value returned or raised: [v, exc]

deferredVars == <<dnode, info, dcalls, dresult>>

VARIABLES
    ftree,      \* the condition tree given to format_rule
    ftext,      \* the text at hand: [s, exc], exc what format_rule raised
    fparsed,    \* what parse_rule made of the text: [t, exc]
    fstage      \* "new", "formatted", "parsed" or "text"

formatVars == <<ftree, ftext, fparsed, fstage>>

VARIABLES
    matches,       \* the rules a trigger matched, in match order
    continuations, \* whether the checker has its bound continuations
    checked        \* what the last check did: [exc, attempted, invoked], whether the
                   \* checker had its continuations then, and the checks made

checkVars == <<matches, continuations, checked>>

VARIABLES
    given,      \* the rules a collection is made of, as given
    held,       \* the collection: [cls, items], cls "none" before it is made
    matchOut    \* what the last match or matches did: [call, x, results, exc, evaluated]

rulesVars == <<given, held, matchOut>>

VARIABLES
    lhs,        \* the node n of an operator expression
    rhs,        \* the node m
    opOut       \* the last operator applied: [op, t, exc, self, n, m]

opVars == <<lhs, rhs, opOut>>

VARIABLES
    rcache,     \* the RuleCache: [sources, store]
    cacheOut,   \* the last operation: [op, key, v, called, exc, before]
    ncache      \* the number of operations made on the cache

cacheVars == <<rcache, cacheOut, ncache>>

VARIABLES
    tracked,    \* SignalChecker.objects
    sigOut,     \* the last signal handled: [sig, instance, created, checks, before]
    nsignals    \* the number of signals handled

signalVars == <<tracked, sigOut, nsignals>>

VARIABLES
    checker,    \* the occurrence-recording RuleChecker
    occStore,   \* the occurrences written to the database, in order of writing
    nenters     \* the number of times the checker was entered

occVars == <<checker, occStore, nenters>>

vars == <<treeVars, addVars, buildVars, condVars, deferredVars, formatVars, checkVars, rulesVars, opVars, cacheVars, signalVars, occVars>>

notTree == <<addVars, buildVars, condVars, deferredVars, formatVars, checkVars, rulesVars, opVars, cacheVars, signalVars, occVars>>
notAdd == <<treeVars, buildVars, condVars, deferredVars, formatVars, checkVars, rulesVars, opVars, cacheVars, signalVars, occVars>>
notBuild == <<treeVars, addVars, condVars, deferredVars, formatVars, checkVars, rulesVars, opVars, cacheVars, signalVars, occVars>>
notCond == <<treeVars, addVars, buildVars, deferredVars, formatVars, checkVars, rulesVars, opVars, cacheVars, signalVars, occVars>>
notDeferred == <<treeVars, addVars, buildVars, condVars, formatVars, checkVars, rulesVars, opVars, cacheVars, signalVars, occVars>>
notFormat == <<treeVars, addVars, buildVars, condVars, deferredVars, checkVars, rulesVars, opVars, cacheVars, signalVars, occVars>>
notCheck == <<treeVars, addVars, buildVars, condVars, deferredVars, formatVars, rulesVars, opVars, cacheVars, signalVars, occVars>>
notRules == <<treeVars, addVars, buildVars, condVars, deferredVars, formatVars, checkVars, opVars, cacheVars, signalVars, occVars>>
notOp == <<treeVars, addVars, buildVars, condVars, deferredVars, formatVars, checkVars, rulesVars, cacheVars, signalVars, occVars>>
notCache == <<treeVars, addVars, buildVars, condVars, deferredVars, formatVars, checkVars, rulesVars, opVars, signalVars, occVars>>
notSignal == <<treeVars, addVars, buildVars, condVars, deferredVars, formatVars, checkVars, rulesVars, opVars, cacheVars, occVars>>
notOcc == <<treeVars, addVars, buildVars, condVars, deferredVars, formatVars, checkVars, rulesVars, opVars, cacheVars, signalVars>>

\* The last call made ("new" right after construction).
LastCall == IF Len(calls) = 0 THEN "new" ELSE calls[Len(calls)]

InitTree ==
    /\ tree \in InitTrees
    /\ orig = tree
    /\ before = tree
    /\ calls = <<>>
    /\ result = "None"

Called(name) ==
    /\ Len(calls) < MaxCalls
    /\ calls' = Append(calls, name)
    /\ before' = tree
    /\ UNCHANGED <<orig, notTree>>

\* n.evaluate(): evaluate -> _evaluate; the tree is only read.
Evaluate ==
    /\ Called("evaluate")
    /\ result' = ConditionNode_evaluate(tree)
    /\ UNCHANGED tree

\* n.negate(), the caller catching whatever it raises.
Negate ==
    /\ Called("negate")
    /\ LET r == ConditionNode_negate(tree)
       IN  /\ tree' = r.t
           /\ result' = IF r.exc = "none" THEN "None" ELSE r.exc

\* n.collapse(), the caller catching whatever it raises.
Collapse ==
    /\ Called("collapse")
    /\ LET r == ConditionNode_collapse(tree)
       IN  /\ tree' = r.t
           /\ result' = IF r.exc = "none" THEN "None" ELSE r.exc

\* --------------------------------------------------- building by adds
\* What n &= m, n |= m and n._add(m, conn) are given as m: a leaf, or a node
\* of zero to two children under either connector.
Members == Leaves \cup {ConditionNode(s, c) : s \in SeqsUpTo({Leaf(TRUE)}, 2), c \in Connectors}

NoAdd == [kind |-> "new", member |-> Leaf(FALSE), conn |-> default]

\* ConditionNode(children, connector): the constructor joins all the
\* children it is given under the one connector.
InitAdd ==
    /\ node \in Level1
    /\ nbefore = node
    /\ joined = [i \in 1..Len(node.children) |-> node.connector]
    /\ lastAdd = NoAdd
    /\ addResult = "None"
    /\ nadds = 0

IdleAdd ==
    /\ node = ConditionNode(<<>>, default)
    /\ nbefore = node
    /\ joined = <<>>
    /\ lastAdd = NoAdd
    /\ addResult = "None"
    /\ nadds = 0

\* Trees to collapse: nodes over leaves and over nodes of leaves, also as
\* the only child of a node, of a node of a node, and next to a leaf.
CollapseLevel1 ==
    {ConditionNode([i \in 1..k |-> Leaf(TRUE)], c) : k \in 0..MaxWidth, c \in Connectors}
CollapseLevel2 ==
    {ConditionNode(s, c) : s \in SeqsUpTo(Leaves \cup CollapseLevel1, MaxWidth), c \in Connectors}
Nested(S) == S \cup {ConditionNode(<<t>>, c) : t \in S, c \in Connectors}
CollapseTrees ==
    Nested(Nested(CollapseLevel2))
    \cup {ConditionNode(<<Leaf(FALSE), t>>, c) : t \in Nested(CollapseLevel2), c \in Connectors}

InitCollapse ==
    /\ tree \in CollapseTrees
    /\ orig = tree
    /\ before = tree
    /\ calls = <<>>
    /\ result = "None"

IdleTree ==
    /\ tree = ConditionNode(<<>>, default)
    /\ orig = tree
    /\ before = tree
    /\ calls = <<>>
    /\ result = "None"

\* The bookkeeping of an add that left the node as n2: children that are
\* still in front keep their entry and what came behind them joined under
\* conn; when the old children were pushed down, the new sub-node and the
\* member both stand under conn.
Added(kind, member, conn, n2, exc) ==
    /\ nadds < MaxAdds
    /\ nadds' = nadds + 1
    /\ nbefore' = node
    /\ node' = n2
    /\ lastAdd' = [kind |-> kind, member |-> member, conn |-> conn]
    /\ addResult' = IF exc = "none" THEN "None" ELSE exc
    /\ joined' =
         IF n2 = node THEN joined
         ELSE IF /\ Len(n2.children) >= Len(node.children)
                 /\ SubSeq(n2.children, 1, Len(node.children)) = node.children
              THEN joined \o [i \in 1..(Len(n2.children) - Len(node.children)) |-> conn]
              ELSE [i \in 1..Len(n2.children) |-> conn]
    /\ UNCHANGED notAdd

\* n &= member
IAnd == \E m \in Members : Added("iand", m, AND, __iand__(node, m), "none")

\* n |= member
IOr == \E m \in Members : Added("ior", m, OR, __ior__(node, m), "none")

\* n._add(member, conn), the caller catching the ValueError.
StrictAdd ==
    \E m \in Members, conn \in Connectors :
        LET r == _add(node, m, conn) IN Added("_add", m, conn, r.t, r.exc)

\* ------------------------------------------------- building from records
\* The records of one query: the i-th has pk i (the order of the pks is the
\* order of the query, so a child may come before its parent); parent_id is
\* 0 (None), a pk of the query or a pk that is not in it.
MaxRecords == 3
Record(pk, parent_id, connector, rule_id) ==
    [pk |-> pk, parent_id |-> parent_id, connector |-> connector, rule_id |-> rule_id]
RecordSeqs ==
    UNION {[1..n -> (0..(MaxRecords + 1)) \X Connectors \X {1, 2}] : n \in 0..MaxRecords}
Records(f) == [i \in 1..Len(f) |-> Record(i, f[i][1], f[i][2], f[i][3])]

NoBuilt == Unbuilt(default, "none")

InitBuild ==
    /\ \E f \in RecordSeqs : conditions = Records(f)
    /\ builder = "new"
    /\ built = NoBuilt
    /\ matched = "None"

IdleBuild ==
    /\ conditions = <<>>
    /\ builder = "new"
    /\ built = NoBuilt
    /\ matched = "None"

\* ConditionTree(conditions), the caller catching the ValueError.
CallConditionTree ==
    /\ builder = "new"
    /\ builder' = "ConditionTree"
    /\ built' = ConditionTree(conditions)
    /\ UNCHANGED <<conditions, matched, notBuild>>

\* rule._build_tree(conditions), the caller catching the ValueError.
CallBuildTree ==
    /\ builder = "new"
    /\ builder' = "_build_tree"
    /\ built' = BaseRule_build_tree(conditions)
    /\ UNCHANGED <<conditions, matched, notBuild>>

\* rule.match(*objects, **extra) on the tree built: self.tree._evaluate, the
\* caller catching whatever it raises.
Match ==
    /\ builder # "new"
    /\ built.exc = "none"
    /\ matched = "None"
    /\ matched' = ConditionNode_evaluate(built.t)
    /\ UNCHANGED <<conditions, builder, built, notBuild>>

\* ------------------------------------------------- evaluating a Condition
MaxObjects == 1
MaxCondCalls == 2
Selectors ==
    {Str(<<"0">>), Str(<<"0", "x">>), Str(<<"1", "x">>), Str(<<"extra", "x">>), Str(<<"const">>)}
InputOperators == {"==", "!=", "in", "not in", "exists", "does not exist", "bool"}
Kwargs ==
    [left : Selectors, operator : InputOperators, right : Selectors \cup {EmptyStr},
     negated : BOOLEAN, value : {None, IntV(1), Dict(TRUE, IntV(1))}]
NoArgs == [objects |-> <<>>, extra |-> Dict(FALSE, None)]

InitCond ==
    /\ condKw \in Kwargs
    /\ Condition_init(condKw).exc = "none"
    /\ cond = Condition_init(condKw).c
    /\ condArgs = NoArgs
    /\ condCalls = <<>>
    /\ condResult = "None"

IdleCond ==
    /\ condKw = [left |-> Str(<<"0">>), operator |-> "bool", right |-> EmptyStr,
                 negated |-> FALSE, value |-> None]
    /\ cond = Condition_init([left |-> Str(<<"0">>), operator |-> "bool", right |-> EmptyStr,
                              negated |-> FALSE, value |-> None]).c
    /\ condArgs = NoArgs
    /\ condCalls = <<>>
    /\ condResult = "None"

\* condition.evaluate(*objects, **extra), the caller catching what it raises.
CondEvaluate ==
    \E objects \in SeqsUpTo(Values, MaxObjects), extra \in Dicts :
        LET r == Condition_evaluate(cond, objects, extra)
        IN  /\ Len(condCalls) < MaxCondCalls
            /\ condCalls' = Append(condCalls, "evaluate")
            /\ condArgs' = [objects |-> objects, extra |-> extra]
            /\ condResult' = IF r.exc # "none" THEN r.exc
                              ELSE IF r.v THEN "True" ELSE "False"
            /\ cond' = r.self
            /\ UNCHANGED <<condKw, notCond>>

\* condition.negate()
CondNegate ==
    /\ Len(condCalls) < MaxCondCalls
    /\ condCalls' = Append(condCalls, "negate")
    /\ cond' = Condition_negate(cond)
    /\ condResult' = "None"
    /\ UNCHANGED <<condArgs, condKw, notCond>>

\* ------------------------------------------------- conditions on a model
\* Conditions whose left selects a model's rows, filtered by the stored value.
ModelSelectors ==
    {Str(<<"model", "contenttypes", "contenttype">>), Str(<<"model", "random", "model">>),
     Str(<<"model", "contenttypes">>)}
ModelKwargs ==
    [left : ModelSelectors, operator : {"==", "exists"},
     right : {Str(<<"0">>), Str(<<"const">>), EmptyStr}, negated : BOOLEAN,
     value : {None, IntV(1), Dict(TRUE, IntV(0)), Dict(TRUE, IntV(1))}]

InitModel ==
    /\ condKw \in ModelKwargs
    /\ Condition_init(condKw).exc = "none"
    /\ cond = Condition_init(condKw).c
    /\ condArgs = NoArgs
    /\ condCalls = <<>>
    /\ condResult = "None"

\* condition.evaluate(*objects, **extra) on such a condition, the caller
\* catching what it raises.
ModelEvaluate ==
    \E objects \in SeqsUpTo({IntV(0)}, MaxObjects), extra \in Dicts :
        LET r == Condition_evaluate(cond, objects, extra)
        IN  /\ Len(condCalls) < MaxCondCalls
            /\ condCalls' = Append(condCalls, "evaluate")
            /\ condArgs' = [objects |-> objects, extra |-> extra]
            /\ condResult' = IF r.exc # "none" THEN r.exc
                              ELSE IF r.v THEN "True" ELSE "False"
            /\ cond' = r.self
            /\ UNCHANGED <<condKw, notCond>>

\* ------------------------------------------------ comparing two objects
\* Conditions on objects[0] and objects[1], one per operator token and
\* negated argument (a unary one without right), and the pairs of ints they
\* are evaluated on.
MaxInt == 2
UnaryTokens == {"exists", "does not exist", "bool"}
TokenKwargs ==
    {[left |-> Str(<<"0">>), operator |-> op,
      right |-> IF op \in UnaryTokens THEN EmptyStr ELSE Str(<<"1">>),
      negated |-> n, value |-> None] : op \in DOMAIN OPERATOR_MAP \cup {"bool"}, n \in BOOLEAN}
IntPairs == {<<IntV(a), IntV(b)>> : a, b \in 0..MaxInt}

InitCompare ==
    /\ condKw \in TokenKwargs
    /\ Condition_init(condKw).exc = "none"
    /\ cond = Condition_init(condKw).c
    /\ condArgs = NoArgs
    /\ condCalls = <<>>
    /\ condResult = "None"

\* condition.evaluate(a, b) for ints a and b, the caller catching what it
\* raises.
CompareEvaluate ==
    \E objects \in IntPairs :
        LET r == Condition_evaluate(cond, objects, Dict(FALSE, None))
        IN  /\ Len(condCalls) < MaxCondCalls
            /\ condCalls' = Append(condCalls, "evaluate")
            /\ condArgs' = [objects |-> objects, extra |-> Dict(FALSE, None)]
            /\ condResult' = IF r.exc # "none" THEN r.exc
                              ELSE IF r.v THEN "True" ELSE "False"
            /\ cond' = r.self
            /\ UNCHANGED <<condKw, notCond>>

\* ------------------------------------------- getting deferred values
MaxDeferredCalls == 3
NodeIds == 1..4
Unset == [ty |-> "unset"]

\* A new context {'objects': objects, 'extra': extra}: nothing stored yet.
Context(objects, extra) ==
    [objects |-> objects, extra |-> extra,
     memo |-> [id \in NodeIds |-> Unset], runs |-> [id \in NodeIds |-> 0]]

\* The contexts give every selector of the inputs something to select:
\* one object, an int, and the key x in extra.
ObjectTuples == {<<IntV(n)>> : n \in {0, 1}}
Extras == {Dict(TRUE, IntV(n)) : n \in {0, 1}}

SelectorsAt(id) ==
    {Selector(id, ObjectType(0), <<>>), Selector(id, ExtraType, <<"x">>),
     Selector(id, ConstType(IntV(1)), <<>>)}
DeferredNodes ==
    SelectorsAt(1)
    \cup {DeferredList(1, <<IntV(1)>>)}
    \cup {DeferredList(1, <<sel, IntV(1)>>) : sel \in SelectorsAt(2)}
    \cup {Function(1, "sum", ListV(<<ListV(<<IntV(1), IntV(1)>>)>>))}
    \cup {Function(1, "sum", DeferredList(2, <<DeferredList(3, <<sel, IntV(1)>>)>>)) :
             sel \in SelectorsAt(4)}

NoResult == [v |-> None, exc |-> "none"]

InitDeferred ==
    /\ dnode \in DeferredNodes
    /\ \E objects \in ObjectTuples, extra \in Extras : info = Context(objects, extra)
    /\ dcalls = <<>>
    /\ dresult = NoResult

IdleDeferred ==
    /\ dnode = DeferredList(1, <<>>)
    /\ info = Context(<<>>, Dict(FALSE, None))
    /\ dcalls = <<>>
    /\ dresult = NoResult

Did(what) ==
    /\ Len(dcalls) < MaxDeferredCalls
    /\ dcalls' = Append(dcalls, what)
    /\ UNCHANGED <<dnode, notDeferred>>

\* node.get_value(info), the caller catching what it raises.
GetValue ==
    /\ Did("get")
    /\ LET r == DeferredValue_get_value(dnode, info)
       IN  /\ info' = r.info
           /\ dresult' = [v |-> r.v, exc |-> r.exc]

\* info['objects'] = ..., info['extra'] = ...: the same context, other data.
ChangeObjects ==
    /\ Did("change")
    /\ \E objects \in ObjectTuples, extra \in Extras :
          /\ <<objects, extra>> # <<info.objects, info.extra>>
          /\ info' = [info EXCEPT !.objects = objects, !.extra = extra]
    /\ UNCHANGED dresult

\* info = {...}: a fresh context.
FreshContext ==
    /\ Did("fresh")
    /\ \E objects \in ObjectTuples, extra \in Extras : info' = Context(objects, extra)
    /\ dresult' = NoResult

\* ------------------------------------------------- folding selectors
\* The selectors Selector(selector_type, chain) constructs over the roots:
\* an object index, extra, a const with and without its tuple, a model that
\* is found and one that is not, and selectors of these, two levels deep.
Roots ==
    {ObjectType(0), ExtraType, ConstType(IntV(1)), ConstType(None), ConstName,
     ModelType("contenttypes.contenttype"), ModelType("random.model")}
Chains == {<<>>, <<"x">>}
SelectorsOver(id, roots) ==
    {Selector_init(id, r, c).s : <<r, c>> \in {rc \in roots \X Chains :
                                                  Selector_init(id, rc[1], rc[2]).exc = "none"}}
FoldSelectors == SelectorsOver(1, Roots \cup SelectorsOver(2, Roots \cup SelectorsOver(3, Roots)))

InitFold ==
    /\ dnode \in FoldSelectors
    /\ \E objects \in ObjectTuples, extra \in Extras : info = Context(objects, extra)
    /\ dcalls = <<>>
    /\ dresult = NoResult

\* node.maybe_const()
MaybeConst ==
    /\ Did("maybe_const")
    /\ dresult' = [v |-> maybe_const(dnode), exc |-> "none"]
    /\ UNCHANGED info

\* ------------------------------------------- formatting and parsing rules
\* The conditions of the trees: built with Selector operands, or with the
\* selector strings Condition._select reads.
FormatConditions ==
    {Condition_init([left |-> Selector(1, ObjectType(0), <<"x">>), operator |-> "==",
                     right |-> Selector(2, ConstType(IntV(1)), <<>>),
                     negated |-> FALSE, value |-> None]).c,
     Condition_init([left |-> Selector(3, ExtraType, <<"x">>), operator |-> "exists",
                     right |-> EmptyStr, negated |-> FALSE, value |-> None]).c,
     Condition_init([left |-> Selector(1, ObjectType(0), <<"x">>), operator |-> "does not exist",
                     right |-> EmptyStr, negated |-> FALSE, value |-> None]).c,
     Condition_init([left |-> Str(<<"0", "x">>), operator |-> "!=", right |-> Str(<<"const">>),
                     negated |-> FALSE, value |-> IntV(1)]).c}
FormatLeaves == {CondLeaf(c) : c \in FormatConditions}
FormatLevel1 == {ConditionNode(s, c) : s \in SeqsUpTo(FormatLeaves, MaxWidth), c \in Connectors}
FormatTrees ==
    {ConditionNode(s, c) : s \in SeqsUpTo(FormatLeaves \cup FormatLevel1, MaxWidth),
                           c \in Connectors}

\* Texts written by hand.
RuleTexts ==
    {<<T("("), T(")")>>,
     <<T("("), T("("), T(")"), Space, T("OR"), Space, T("("), T(")"), T(")")>>,
     <<T("NOT"), Space, T("("), T(")")>>,
     <<T("("), T(")"), Space, T("AND"), Space>>,
     <<T("with("), T(")"), Space, T("("), T(")")>>,
     <<Tok("object:", 0, ""), Tok(".", 0, "x"), T(";"), Space, Tok("op", 0, "exists")>>,
     <<T("with("), Tok("object:", 0, ""), Tok(".", 0, "x"), T(";"), T(")"), Space,
       T("("), Tok("\\", 0, ""), Space, Tok("op", 0, "=="), Space, Tok("num", 1, ""), T(")")>>,
     <<T("with("), Tok("\\", 0, ""), T(")"), Space, T("("), T(")")>>,
     <<T("("), Tok("num", 1, ""), T(")")>>,
     <<T("("), T("(")>>}

\* Largest number of connectors of a generated text.
MaxConnectors == 3
ConnectorSeqs == UNION {[1..k -> Connectors] : k \in 1..MaxConnectors}

\* The condition `i bool`, and the texts c0 k1 c1 k2 c2 ... without and with
\* the parentheses of the left fold: ((c0 k1 c1) k2 c2) k3 c3.
Operand(i) == <<Tok("num", i, ""), Space, Tok("op", 0, "bool")>>
RECURSIVE SequenceText(_, _)
SequenceText(ks, i) ==
    IF i = 0 THEN Operand(0)
    ELSE SequenceText(ks, i - 1) \o <<Space, T(ks[i]), Space>> \o Operand(i)
RECURSIVE GroupedText(_, _)
GroupedText(ks, i) ==
    IF i = 0 THEN Operand(0)
    ELSE (IF i = 1 THEN Operand(0) ELSE <<T("(")>> \o GroupedText(ks, i - 1) \o <<T(")")>>)
         \o <<Space, T(ks[i]), Space>> \o Operand(i)
SequenceTexts ==
    {SequenceText(ks, Len(ks)) : ks \in ConnectorSeqs}
    \cup {GroupedText(ks, Len(ks)) : ks \in ConnectorSeqs}

\* Texts with a with(...) prelude and backreferences:
\*   with(object:0) \0 bool AND \0 bool AND \0.0 bool
\*   with(object:0.x;,\0.y;) \1 bool OR \0 bool
\*   with(object:0) \1 bool
BackrefTexts ==
    {<<T("with("), Tok("object:", 0, ""), T(")"), Space,
       Tok("\\", 0, ""), Space, Tok("op", 0, "bool"), Space, T("AND"), Space,
       Tok("\\", 0, ""), Space, Tok("op", 0, "bool"), Space, T("AND"), Space,
       Tok("\\", 0, ""), Tok(".", 0, "0"), Space, Tok("op", 0, "bool")>>,
     <<T("with("), Tok("object:", 0, ""), Tok(".", 0, "x"), T(";"), T(","),
       Tok("\\", 0, ""), Tok(".", 0, "y"), T(";"), T(")"), Space,
       Tok("\\", 1, ""), Space, Tok("op", 0, "bool"), Space, T("OR"), Space,
       Tok("\\", 0, ""), Space, Tok("op", 0, "bool")>>,
     <<T("with("), Tok("object:", 0, ""), T(")"), Space,
       Tok("\\", 1, ""), Space, Tok("op", 0, "bool")>>}

NoText == [s |-> <<>>, exc |-> "none"]
NoParsed == [t |-> ConditionNode(<<>>, default), exc |-> "none"]

InitFormat ==
    /\ ftree \in FormatTrees
    /\ ftext = NoText
    /\ fparsed = NoParsed
    /\ fstage = "new"

IdleFormat ==
    /\ ftree = ConditionNode(<<>>, default)
    /\ ftext = NoText
    /\ fparsed = NoParsed
    /\ fstage = "new"

\* text = format_rule(tree), the caller catching what it raises.
FormatRule ==
    /\ fstage = "new"
    /\ fstage' = "formatted"
    /\ ftext' = format_rule(ftree)
    /\ UNCHANGED <<ftree, fparsed, notFormat>>

\* parse_rule(text) of the text format_rule returned.
ParseFormatted ==
    /\ fstage = "formatted"
    /\ ftext.exc = "none"
    /\ fstage' = "parsed"
    /\ fparsed' = parse_rule(ftext.s)
    /\ UNCHANGED <<ftree, ftext, notFormat>>

\* Trees whose operands share deferred values: the selector 0.x twice as one
\* object and once more as an equal other object, a selector rooted at it, a
\* function over it, and an extra selector.  Nested values hold the one
\* object 1, so that equal values are equal at every depth.
WithConditions ==
    LET s1 == Selector(1, ObjectType(0), <<"x">>)
    IN  {Condition_init([left |-> s1, operator |-> "bool", right |-> EmptyStr,
                         negated |-> FALSE, value |-> None]).c,
         Condition_init([left |-> Selector(2, ObjectType(0), <<"x">>), operator |-> "==",
                         right |-> Selector(3, ExtraType, <<"x">>),
                         negated |-> FALSE, value |-> None]).c,
         Condition_init([left |-> Selector(4, s1, <<"y">>), operator |-> "==",
                         right |-> s1, negated |-> FALSE, value |-> None]).c,
         Condition_init([left |-> Function(5, "sum", DeferredList(6, <<DeferredList(7, <<s1, IntV(1)>>)>>)),
                         operator |-> "==", right |-> Selector(8, Selector(4, s1, <<"y">>), <<"x">>),
                         negated |-> FALSE, value |-> None]).c}
WithTrees ==
    {ConditionNode(s, c) : s \in SeqsUpTo({CondLeaf(c) : c \in WithConditions}, MaxWidth + 1),
                           c \in Connectors}

InitWith ==
    /\ ftree \in WithTrees
    /\ ftext = NoText
    /\ fparsed = NoParsed
    /\ fstage = "new"

\* parse_rule(text) of a text written by hand.
ParseText ==
    /\ fstage = "new"
    /\ fstage' = "text"
    /\ \E text \in RuleTexts \cup SequenceTexts \cup BackrefTexts :
          /\ ftext' = [s |-> text, exc |-> "none"]
          /\ fparsed' = parse_rule(text)
    /\ UNCHANGED <<ftree, notFormat>>

\* --------------------------------------------------- checking a trigger
\* Largest number of rules one trigger matches.
MaxMatches == 3
\* Number of checks one checker makes.
MaxChecks == 2
ContinuationNames == {"cont1", "cont2", "cont3", "cont4", "none", "noop"}
Rule(continuation) == [continuation |-> continuation]
MatchLists == UNION {[1..n -> {Rule(c) : c \in ContinuationNames}] : n \in 0..MaxMatches}
NoCheck == [exc |-> "none", attempted |-> 0, invoked |-> <<>>, bound |-> FALSE, n |-> 0]

InitCheck ==
    /\ matches \in MatchLists
    /\ continuations = FALSE
    /\ checked = NoCheck

IdleCheck ==
    /\ matches = <<>>
    /\ continuations = FALSE
    /\ checked = NoCheck

\* RuleChecker.__enter__: the store is bound to the context.
Enter ==
    /\ ~continuations
    /\ continuations' = TRUE
    /\ UNCHANGED <<matches, checked, notCheck>>

\* RuleChecker.__exit__: unbind, del self.continuations.
Exit ==
    /\ continuations
    /\ continuations' = FALSE
    /\ UNCHANGED <<matches, checked, notCheck>>

\* checker.check(trigger, *objects, **extra) for a trigger that matches the
\* rules of `matches`, the caller catching whatever it raises.
Check ==
    /\ checked.n < MaxChecks
    /\ LET r == RuleChecker_check(matches, continuations, 1, <<>>)
       IN  checked' = [exc |-> r.exc, attempted |-> r.attempted, invoked |-> r.invoked,
                       bound |-> continuations, n |-> checked.n + 1]
    /\ UNCHANGED <<matches, continuations, notCheck>>

\* ------------------------------------------------ matching in collections
MaxRules == 3
RulePool(id) ==
    {BareRule(id, kind, v) : kind \in {"dummy", "rule"}, v \in BOOLEAN}
    \cup {WeightedRule(id, kind, v, w) : kind \in {"dummy", "rule"}, v \in BOOLEAN, w \in {0, 1}}
RuleSeqs(n) ==
    IF n = 0 THEN {<<>>}
    ELSE IF n = 1 THEN {<<a>> : a \in RulePool(1)}
    ELSE IF n = 2 THEN {<<a, b>> : a \in RulePool(1), b \in RulePool(2)}
    ELSE {<<a, b, c>> : a \in RulePool(1), b \in RulePool(2), c \in RulePool(3)}
NoMatchOut == [call |-> "none", x |-> 0, results |-> <<>>, exc |-> "none", evaluated |-> <<>>]

InitRules ==
    /\ given \in UNION {RuleSeqs(n) : n \in 0..MaxRules}
    /\ held = [cls |-> "none", items |-> <<>>]
    /\ matchOut = NoMatchOut

IdleRules ==
    /\ given = <<>>
    /\ held = [cls |-> "none", items |-> <<>>]
    /\ matchOut = NoMatchOut

\* RuleList(rules), RuleMutex(rules)
NewCollection ==
    /\ held.cls = "none"
    /\ \E cls \in {"RuleList", "RuleMutex"} :
          held' = [cls |-> cls, items |-> RuleList_new(given)]
    /\ UNCHANGED <<given, matchOut, notRules>>

\* mutex.match(), the caller catching what it raises.
MutexMatch ==
    /\ held.cls = "RuleMutex"
    /\ matchOut.call = "none"
    /\ matchOut' = RuleMutex_match(held.items, 1, <<>>)
    /\ UNCHANGED <<given, held, notRules>>

\* rulelist.matches(), the caller catching what it raises.
ListMatches ==
    /\ held.cls = "RuleList"
    /\ matchOut.call = "none"
    /\ matchOut' = RuleList_matches(held.items, 1, <<>>, <<>>)
    /\ UNCHANGED <<given, held, notRules>>

\* ------------------------------------------------- operator expressions
\* opOut holds the operator applied, the node it returned or the exception,
\* whether the node returned is n itself, and n and m as they were before.
NoOp == [op |-> "none", t |-> ConditionNode(<<>>, default), exc |-> "none", self |-> FALSE,
         n |-> ConditionNode(<<>>, default), m |-> ConditionNode(<<>>, default)]
Operated(op, r, inplace) ==
    /\ opOut' = [op |-> op, t |-> r.t, exc |-> r.exc, self |-> inplace, n |-> lhs, m |-> rhs]
    /\ lhs' = IF inplace THEN r.t ELSE lhs
    /\ UNCHANGED <<rhs, notOp>>

InitOp ==
    /\ lhs \in Level1
    /\ rhs \in Level1
    /\ opOut = NoOp

IdleOp ==
    /\ lhs = ConditionNode(<<>>, default)
    /\ rhs = ConditionNode(<<>>, default)
    /\ opOut = NoOp

\* ~n, n & m, n | m, the caller catching what they raise.
Invert == opOut.op = "none" /\ Operated("~", __invert__(lhs), FALSE)
And == opOut.op = "none" /\ Operated("&", __and__(lhs, rhs), FALSE)
Or == opOut.op = "none" /\ Operated("|", __or__(lhs, rhs), FALSE)
\* n &= m, n |= m
InplaceAnd == opOut.op = "none" /\ Operated("&=", [t |-> __iand__(lhs, rhs), exc |-> "none"], TRUE)
InplaceOr == opOut.op = "none" /\ Operated("|=", [t |-> __ior__(lhs, rhs), exc |-> "none"], TRUE)

\* --------------------------------------------------- using a rule cache
\* Operations on one cache.
MaxCacheOps == 3
\* The sources a key is given: a callable that yields two rules, heavier
\* first, a rule, and a list of one rule.
AddedSources ==
    {Source("f", "callable", <<WeightedRule(3, "dummy", TRUE, 2), WeightedRule(4, "dummy", TRUE, 0)>>),
     Source("d", "rule", <<WeightedRule(5, "dummy", TRUE, 1)>>),
     Source("l", "list", <<BareRule(6, "dummy", FALSE)>>)}
\* What cache[key] is assigned: a rule, a list of rules, a RuleList.
Assigned ==
    {[kind |-> "rule", items |-> <<BareRule(7, "dummy", TRUE)>>],
     [kind |-> "list", items |-> <<WeightedRule(8, "dummy", TRUE, 1), BareRule(7, "dummy", TRUE)>>],
     [kind |-> "rulelist", items |-> <<>>]}
NoCacheOut ==
    [op |-> "none", key |-> "hello", v |-> <<>>, called |-> <<>>, exc |-> "none",
     before |-> RuleCache_init]

InitCache ==
    /\ rcache = RuleCache_init
    /\ cacheOut = NoCacheOut
    /\ ncache = 0

IdleCache == InitCache

CacheOp(op, key, r) ==
    /\ ncache' = ncache + 1
    /\ rcache' = r.self
    /\ cacheOut' = [op |-> op, key |-> key, v |-> r.v, called |-> r.called, exc |-> r.exc,
                    before |-> rcache]
    /\ UNCHANGED notCache

Returned(self) == [self |-> self, v |-> <<>>, called |-> <<>>, exc |-> "none"]

\* cache[key]
Lookup ==
    /\ ncache < MaxCacheOps
    /\ \E key \in CacheKeys : CacheOp("getitem", key, RuleCache_getitem(rcache, key))
\* cache.add_source(key, source)
AddSource ==
    /\ ncache < MaxCacheOps
    /\ \E key \in CacheKeys, source \in AddedSources :
        CacheOp("add_source", key, Returned(RuleCache_add_source(rcache, key, source)))
\* cache.set_primary_source(key, source)
SetPrimarySource ==
    /\ ncache < MaxCacheOps
    /\ \E key \in CacheKeys, source \in AddedSources :
        CacheOp("set_primary_source", key,
                Returned(RuleCache_set_primary_source(rcache, key, source)))
\* cache[key] = rules
Assign ==
    /\ ncache < MaxCacheOps
    /\ \E key \in CacheKeys, rules \in Assigned :
        CacheOp("setitem", key, Returned(RuleCache_setitem(rcache, key, rules)))
\* del cache[key], the caller catching the KeyError.
Delete ==
    /\ ncache < MaxCacheOps
    /\ \E key \in CacheKeys : CacheOp("delitem", key, RuleCache_delitem(rcache, key))

\* ------------------------------------------------- signals of one model
\* Signals handled by one checker.
MaxSignals == 3
Sender == "Model"
\* The instances a signal comes with: unsaved, or saved under pk 1 or 2.
Instances == {Instance(pk, val) : pk \in 0..2, val \in {0, 1}}
NoSignal == [sig |-> "none", instance |-> Instance(0, 0), created |-> FALSE, checks |-> <<>>,
             before |-> {}]

InitSignal ==
    /\ tracked = {}
    /\ sigOut = NoSignal
    /\ nsignals = 0

IdleSignal == InitSignal

Signalled(sig, instance, created, r) ==
    /\ nsignals' = nsignals + 1
    /\ tracked' = r.objects
    /\ sigOut' = [sig |-> sig, instance |-> instance, created |-> created, checks |-> r.checks,
                  before |-> tracked]
    /\ UNCHANGED notSignal

\* checker.track(obj), and post_init of an instance loaded from the database.
Track ==
    /\ nsignals < MaxSignals
    /\ \E i \in Instances :
        Signalled("post_init", i, FALSE, Handled(SignalChecker_track(tracked, Sender, i), <<>>))
\* pre_save of instance.save()
PreSave ==
    /\ nsignals < MaxSignals
    /\ \E i \in Instances : Signalled("pre_save", i, FALSE, _check_pres(tracked, Sender, i))
\* post_save: the instance has a pk; created tells an insert from an update.
PostSave ==
    /\ nsignals < MaxSignals
    /\ \E i \in Instances, created \in BOOLEAN :
        /\ i.pk # 0
        /\ Signalled("post_save", i, created, _check_posts(tracked, Sender, i, created))
\* pre_delete and post_delete of instance.delete()
PreDelete ==
    /\ nsignals < MaxSignals
    /\ \E i \in Instances :
        i.pk # 0 /\ Signalled("pre_delete", i, FALSE, _check_pred(tracked, Sender, i))
PostDelete ==
    /\ nsignals < MaxSignals
    /\ \E i \in Instances :
        i.pk # 0 /\ Signalled("post_delete", i, FALSE, _check_postd(tracked, Sender, i))

\* ------------------------------------------- recording occurrences
\* Occurrences made by one checker, and the times it is entered.
MaxOccurrences == 3
MaxEnters == 2
NewChecker(save, pks) ==
    [save_occurrences |-> save, need_pks |-> pks, occurrences |-> <<>>, connected |-> FALSE]

InitOcc ==
    /\ \E save, pks \in BOOLEAN : checker = NewChecker(save, pks)
    /\ occStore = <<>>
    /\ nenters = 0

IdleOcc ==
    /\ checker = NewChecker(TRUE, FALSE)
    /\ occStore = <<>>
    /\ nenters = 0

\* with checker:
EnterChecker ==
    /\ ~checker.connected
    /\ nenters < MaxEnters
    /\ nenters' = nenters + 1
    /\ checker' = RuleChecker_enter(checker)
    /\ UNCHANGED <<occStore, notOcc>>

\* post_save or post_delete of an instance while the signals are connected:
\* _check or _check_delete, the rules giving some number of matches.
SignalOcc(signal) ==
    /\ \E nmatches \in 0..2 :
          /\ Len(checker.occurrences) + nmatches <= MaxOccurrences
          /\ LET r == _check_rules([self |-> checker, store |-> occStore], signal,
                                   Len(checker.occurrences), nmatches)
             IN  /\ checker' = r.self
                 /\ occStore' = r.store
    /\ UNCHANGED <<nenters, notOcc>>
SavedSignal == checker.connected /\ SignalOcc("post_save")
DeletedSignal == checker.connected /\ SignalOcc("post_delete")

\* the end of the with block
ExitChecker ==
    /\ checker.connected
    /\ LET r == RuleChecker_exit(checker, occStore)
       IN  /\ checker' = r.self
           /\ occStore' = r.store
    /\ UNCHANGED <<nenters, notOcc>>

Init == InitTree /\ IdleAdd /\ IdleBuild /\ IdleCond /\ IdleDeferred /\ IdleFormat /\ IdleCheck /\ IdleRules /\ IdleOp /\ IdleCache /\ IdleSignal /\ IdleOcc
Next == Evaluate \/ Negate \/ Collapse
Spec == Init /\ [][Next]_vars

InitL == InitCollapse /\ IdleAdd /\ IdleBuild /\ IdleCond /\ IdleDeferred /\ IdleFormat /\ IdleCheck /\ IdleRules /\ IdleOp /\ IdleCache /\ IdleSignal /\ IdleOcc
NextL == Collapse
SpecCollapse == InitL /\ [][NextL]_vars

InitA == IdleTree /\ InitAdd /\ IdleBuild /\ IdleCond /\ IdleDeferred /\ IdleFormat /\ IdleCheck /\ IdleRules /\ IdleOp /\ IdleCache /\ IdleSignal /\ IdleOcc
NextA == IAnd \/ IOr \/ StrictAdd
SpecAdd == InitA /\ [][NextA]_vars

InitB == IdleTree /\ IdleAdd /\ InitBuild /\ IdleCond /\ IdleDeferred /\ IdleFormat /\ IdleCheck /\ IdleRules /\ IdleOp /\ IdleCache /\ IdleSignal /\ IdleOcc
NextB == CallConditionTree \/ CallBuildTree \/ Match
SpecBuild == InitB /\ [][NextB]_vars

InitC == IdleTree /\ IdleAdd /\ IdleBuild /\ InitCond /\ IdleDeferred /\ IdleFormat /\ IdleCheck /\ IdleRules /\ IdleOp /\ IdleCache /\ IdleSignal /\ IdleOcc
NextC == CondEvaluate \/ CondNegate
SpecCond == InitC /\ [][NextC]_vars

InitP == IdleTree /\ IdleAdd /\ IdleBuild /\ InitCompare /\ IdleDeferred /\ IdleFormat /\ IdleCheck /\ IdleRules /\ IdleOp /\ IdleCache /\ IdleSignal /\ IdleOcc
NextP == CompareEvaluate \/ CondNegate
SpecCompare == InitP /\ [][NextP]_vars

InitQ == IdleTree /\ IdleAdd /\ IdleBuild /\ InitModel /\ IdleDeferred /\ IdleFormat /\ IdleCheck /\ IdleRules /\ IdleOp /\ IdleCache /\ IdleSignal /\ IdleOcc
NextQ == ModelEvaluate \/ CondNegate
SpecModel == InitQ /\ [][NextQ]_vars

InitM == IdleTree /\ IdleAdd /\ IdleBuild /\ IdleCond /\ InitFold /\ IdleFormat /\ IdleCheck /\ IdleRules /\ IdleOp /\ IdleCache /\ IdleSignal /\ IdleOcc
NextM == MaybeConst \/ GetValue \/ FreshContext
SpecFold == InitM /\ [][NextM]_vars

InitD == IdleTree /\ IdleAdd /\ IdleBuild /\ IdleCond /\ InitDeferred /\ IdleFormat /\ IdleCheck /\ IdleRules /\ IdleOp /\ IdleCache /\ IdleSignal /\ IdleOcc
NextD == GetValue \/ ChangeObjects \/ FreshContext
SpecDeferred == InitD /\ [][NextD]_vars

InitF == IdleTree /\ IdleAdd /\ IdleBuild /\ IdleCond /\ IdleDeferred /\ InitFormat /\ IdleCheck /\ IdleRules /\ IdleOp /\ IdleCache /\ IdleSignal /\ IdleOcc
NextF == FormatRule \/ ParseFormatted \/ ParseText
SpecFormat == InitF /\ [][NextF]_vars

InitW == IdleTree /\ IdleAdd /\ IdleBuild /\ IdleCond /\ IdleDeferred /\ InitWith /\ IdleCheck /\ IdleRules /\ IdleOp /\ IdleCache /\ IdleSignal /\ IdleOcc
NextW == FormatRule \/ ParseFormatted
SpecWith == InitW /\ [][NextW]_vars

InitK == IdleTree /\ IdleAdd /\ IdleBuild /\ IdleCond /\ IdleDeferred /\ IdleFormat /\ InitCheck /\ IdleRules /\ IdleOp /\ IdleCache /\ IdleSignal /\ IdleOcc
NextK == Enter \/ Exit \/ Check
SpecCheck == InitK /\ [][NextK]_vars

InitO == IdleTree /\ IdleAdd /\ IdleBuild /\ IdleCond /\ IdleDeferred /\ IdleFormat /\ IdleCheck /\ IdleRules /\ InitOp /\ IdleCache /\ IdleSignal /\ IdleOcc
NextO == Invert \/ And \/ Or \/ InplaceAnd \/ InplaceOr
SpecOp == InitO /\ [][NextO]_vars

InitH == IdleTree /\ IdleAdd /\ IdleBuild /\ IdleCond /\ IdleDeferred /\ IdleFormat /\ IdleCheck /\ IdleRules /\ IdleOp /\ InitCache /\ IdleSignal /\ IdleOcc
NextH == Lookup \/ AddSource \/ SetPrimarySource \/ Assign \/ Delete
SpecCache == InitH /\ [][NextH]_vars

InitS == IdleTree /\ IdleAdd /\ IdleBuild /\ IdleCond /\ IdleDeferred /\ IdleFormat /\ IdleCheck /\ IdleRules /\ IdleOp /\ IdleCache /\ InitSignal /\ IdleOcc
NextS == Track \/ PreSave \/ PostSave \/ PreDelete \/ PostDelete
SpecSignal == InitS /\ [][NextS]_vars

InitE == IdleTree /\ IdleAdd /\ IdleBuild /\ IdleCond /\ IdleDeferred /\ IdleFormat /\ IdleCheck /\ IdleRules /\ IdleOp /\ IdleCache /\ IdleSignal /\ InitOcc
NextE == EnterChecker \/ SavedSignal \/ DeletedSignal \/ ExitChecker
SpecOcc == InitE /\ [][NextE]_vars

InitR == IdleTree /\ IdleAdd /\ IdleBuild /\ IdleCond /\ IdleDeferred /\ IdleFormat /\ IdleCheck /\ InitRules /\ IdleOp /\ IdleCache /\ IdleSignal /\ IdleOcc
NextR == NewCollection \/ MutexMatch \/ ListMatches
SpecRules == InitR /\ [][NextR]_vars

\* ------------------------------------------------ properties: tree algebra
\* The boolean a tree stands for: AND holds iff every child holds (an empty
\* AND holds), OR holds iff some child holds (an empty OR does not).
RECURSIVE Holds(_)
Holds(x) ==
    IF IsNode(x)
    THEN IF x.connector = AND
         THEN \A i \in 1..Len(x.children) : Holds(x.children[i])
         ELSE \E i \in 1..Len(x.children) : Holds(x.children[i])
    ELSE x.v

AsResult(b) == IF b THEN "True" ELSE "False"
Booleans == {"True", "False"}
NotResult(r) == IF r = "True" THEN "False" ELSE IF r = "False" THEN "True" ELSE r

\* C1: evaluate() returns true for AND iff every child evaluates true and for
\* OR iff at least one child evaluates true; with no children AND gives true
\* and OR gives false.
C1_EvaluateAllAny ==
    LastCall = "evaluate" => result = AsResult(Holds(tree))

\* C2: after negate() the tree evaluates to the logical negation of what it
\* evaluated to before the call.
C2_NegateNegatesResult ==
    LastCall = "negate" =>
        /\ result = "None"
        /\ ConditionNode_evaluate(tree) \in Booleans
        /\ ConditionNode_evaluate(tree) = NotResult(ConditionNode_evaluate(before))

\* C3: negate() twice and then collapse() gives a tree that evaluates as
\* collapse() of the original does; a node whose children are all leaves gets
\* back its original children, in order, and its original connector.
AllLeaves(n) == \A i \in 1..Len(n.children) : ~IsNode(n.children[i])
C3_NegateTwiceCollapse ==
    calls = <<"negate", "negate", "collapse">> =>
        /\ ConditionNode_evaluate(tree) \in Booleans
        /\ ConditionNode_evaluate(tree)
             = ConditionNode_evaluate(ConditionNode_collapse(orig).t)
        /\ AllLeaves(orig) =>
             /\ tree.children = orig.children
             /\ tree.connector = orig.connector

\* C4: collapse() never changes the result of evaluate.
C4_CollapseKeepsResult ==
    LastCall = "collapse" =>
        /\ ConditionNode_evaluate(tree) \in Booleans
        /\ ConditionNode_evaluate(tree) = ConditionNode_evaluate(before)

\* --------------------------------------------------- properties: generic add
GenericAdd == lastAdd.kind \in {"iand", "ior"}
ConnectorDiffers == lastAdd.conn # nbefore.connector

\* C5: a generic add under a connector other than the node's pushes two or
\* more existing children, in order, into one new sub-node that keeps the old
\* connector, the node becoming [sub-node, member] under the new connector;
\* with zero or one children no sub-node is made and the connector becomes
\* the new one.  So in every node built by adds, every child behind the first
\* was joined under the connector the node has now.
C5_GenericAddDemotes ==
    /\ (GenericAdd /\ ConnectorDiffers /\ Len(nbefore.children) >= 2) =>
           node = ConditionNode(
                    <<ConditionNode(nbefore.children, nbefore.connector), lastAdd.member>>,
                    lastAdd.conn)
    /\ (GenericAdd /\ ConnectorDiffers /\ Len(nbefore.children) <= 1) =>
           /\ node.connector = lastAdd.conn
           /\ \/ node.children = Append(nbefore.children, lastAdd.member)
              \/ /\ IsNode(lastAdd.member)
                 /\ node.children = nbefore.children \o lastAdd.member.children
    /\ Len(joined) = Len(node.children)
    /\ \A i \in 2..Len(node.children) : joined[i] = node.connector

\* C5 (witness): n |= m on an AND node of two children has pushed them down.
C5_Witness ==
    /\ lastAdd.kind = "ior"
    /\ nbefore.connector = AND
    /\ Len(nbefore.children) = 2
    /\ node.connector = OR
    /\ Len(node.children) = 2
    /\ node.children[1] = ConditionNode(nbefore.children, AND)
    /\ node.children[2] = lastAdd.member

\* ------------------------------------------------ properties: strict builders
\* C6: a builder from records raises ValueError when a record comes under a
\* connector other than that of a parent that already has a child, and it
\* never pushes children down into a new sub-node.
C6_BuildersRaiseOnMixed ==
    builder \in {"ConditionTree", "_build_tree"} =>
        /\ built.mixed => built.exc = "ValueError"
        /\ ~built.demoted

\* --------------------------------------------------- properties: Condition
Evaluated == Len(condCalls) > 0 /\ condCalls[Len(condCalls)] = "evaluate"

\* What a selector of the inputs resolves to, Missing when the object it
\* names is not given or the key it names is not in the object.
Missing == [ty |-> "missing"]
Resolve(selector) ==
    LET s == selector.parts
        base == IF s[1] \in DOMAIN Digits
                THEN IF Digits[s[1]] + 1 <= Len(condArgs.objects)
                     THEN condArgs.objects[Digits[s[1]] + 1]
                     ELSE Missing
                ELSE IF s[1] = "extra" THEN condArgs.extra
                ELSE cond.value
    IN  IF base = Missing \/ Len(s) = 1 THEN base
        ELSE IF base.ty = "dict" /\ base.has THEN base.x
        ELSE Missing

\* C7: a unary (bool/exists) condition does not raise; it gives negated when
\* its left operand cannot be resolved and the operand's truthiness XOR
\* negated when it can.
C7_UnaryAbsorbsChainError ==
    (Evaluated /\ cond.operator = "bool" /\ cond.right = EmptyStr) =>
        condResult = AsResult(IF Resolve(cond.left) = Missing THEN cond.negated
                              ELSE Truthy(Resolve(cond.left)) # cond.negated)

\* C8: no exception escapes from the evaluation of a binary condition, and
\* when an operand cannot be resolved the result is false, negated or not.
C8_BinaryFailsClosed ==
    (Evaluated /\ cond.operator # "bool") =>
        /\ condResult \in Booleans
        /\ (Resolve(cond.left) = Missing \/ Resolve(cond.right) = Missing) =>
               condResult = "False"

\* --------------------------------------------- properties: deferred values
\* C9: in one context a node's value is computed at most once: a get_value
\* call returns, its result is stored in the context under the node's
\* identity, and no node's _get_value has run more than once there.
C9_ComputedOncePerContext ==
    (Len(dcalls) > 0 /\ dcalls[Len(dcalls)] = "get") =>
        /\ dresult.exc = "none"
        /\ info.memo[dnode.id] = dresult.v
        /\ \A id \in NodeIds : info.runs[id] <= 1

\* ---------------------------------------------- properties: rule round trip
\* A tree, condition or operand without the identities of its objects.
RECURSIVE Shape(_)
Shape(x) ==
    IF IsTree(x)
    THEN [kind |-> "node", connector |-> x.connector,
          children |-> [i \in 1..Len(x.children) |-> Shape(x.children[i])]]
    ELSE IF IsCondition(x)
    THEN [kind |-> "cond", operator |-> x.c.operator, negated |-> x.c.negated,
          left |-> Shape(x.c.left), right |-> Shape(x.c.right)]
    ELSE IF IsDeferred(x) /\ x.cls = "Selector"
    THEN [cls |-> "Selector", stype |-> Shape(x.stype), chain |-> x.chain]
    ELSE x

\* C10: format_rule gives a text for every tree, and parse_rule of that text
\* is, both sides collapsed, the tree again: connectors, order of children,
\* and operator, operands and negated flag of every leaf.
C10_RoundTrip ==
    /\ fstage = "formatted" => ftext.exc = "none"
    /\ fstage = "parsed" =>
          /\ fparsed.exc = "none"
          /\ Shape(fparsed.t) = Shape(ConditionNode_collapse(ftree).t)

\* ------------------------------------------ properties: parsing connectors
\* The left fold of c0 k1 c1 k2 c2 ...: acc is the tree of the first i
\* conditions; a connector equal to the tree's appends, another one nests.
ParsedOperand(i) ==
    [kind |-> "cond", operator |-> "bool", negated |-> FALSE,
     left |-> [cls |-> "Selector", stype |-> ConstType(IntV(i)), chain |-> <<>>],
     right |-> EmptyStr]
RECURSIVE LeftFold(_, _)
LeftFold(ks, i) ==
    IF i = 0 THEN [kind |-> "node", connector |-> default, children |-> <<ParsedOperand(0)>>]
    ELSE IF i = 1 \/ LeftFold(ks, i - 1).connector = ks[i]
    THEN [LeftFold(ks, i - 1) EXCEPT !.connector = ks[i],
                                     !.children = Append(@, ParsedOperand(i))]
    ELSE [kind |-> "node", connector |-> ks[i],
          children |-> <<LeftFold(ks, i - 1), ParsedOperand(i)>>]

\* C11: a text c0 k1 c1 k2 c2 ... of conditions and connectors parses, and to
\* the left fold (((c0 k1 c1) k2 c2) ...), as the text with the parentheses
\* of that fold written out does.
C11_LeftFold ==
    fstage = "text" =>
        \A ks \in ConnectorSeqs :
            ftext.s \in {SequenceText(ks, Len(ks)), GroupedText(ks, Len(ks))} =>
                /\ fparsed.exc = "none"
                /\ Shape(fparsed.t) = LeftFold(ks, Len(ks))

\* ------------------------------------------- properties: backreferences
\* The object a backreference of a text of BackrefTexts names: the entries of
\* the prelude are made at the tokens 2 and 6, the Selector's id.
Referred(tok) == IF tok.n = 0 THEN 2 ELSE 6
\* The object at the root of an operand: the operand, or its stype when that
\* is a deferred value.
Root(x) == IF IsDeferred(x.stype) THEN x.stype ELSE x
\* The backreferences of the tree part of a text, in order.
Backrefs(text) ==
    SelectSeq(SubSeq(text, 5, Len(text)), LAMBDA tok : tok.t = "\\")

\* C12: in a text with a with(...) prelude every backreference \N of the tree
\* is the N-th object of the prelude itself, as the operand or (with a chain)
\* as the root of the operand; a backreference the prelude does not define
\* raises ValueError.
C12_BackrefIdentity ==
    (fstage = "text" /\ ftext.s \in BackrefTexts) =>
        IF \E i \in 1..Len(ftext.s) : ftext.s[i] = Tok("\\", 1, "") /\ ftext.s[3] = T(")")
        THEN fparsed.exc = "ValueError"
        ELSE /\ fparsed.exc = "none"
             /\ Len(fparsed.t.children) = Len(Backrefs(ftext.s))
             /\ \A i \in 1..Len(fparsed.t.children) :
                    LET left == fparsed.t.children[i].c.left
                        tok == Backrefs(ftext.s)[i]
                    IN  \/ left.id = Referred(tok)
                        \/ Root(left).id = Referred(tok) /\ Len(left.chain) > 0

\* ---------------------------------------------- properties: the with prefix
\* C13: the text format_rule returns starts with `with(` exactly when a
\* deferred value of the tree was given a backreference, and parse_rule
\* accepts the text.
C13_PrefixOnlyWithDeferred ==
    /\ (fstage \in {"formatted", "parsed"} /\ ftext.exc = "none") =>
          (Head(ftext.s) = T("with(")
             <=> Len(_format_tree(ftree, NoDeferred).deferred.objs) > 0)
    /\ fstage = "parsed" => fparsed.exc = "none"

\* ------------------------------------------------ properties: empty rules
\* C14: a tree built from no conditions is an OR node without children, and
\* match on it returns false.
C14_EmptyNeverMatches ==
    (builder # "new" /\ Len(conditions) = 0) =>
        /\ built.exc = "none"
        /\ built.t = ConditionNode(<<>>, OR)
        /\ matched \in {"None", "False"}

\* ------------------------------------------------ properties: rule checker
\* What the continuation a rule names raises when called, "none" when it
\* returns, when it is the noop or when the name is not registered.
Raises(rule) ==
    CASE rule.continuation = "cont2" -> "ValueError"
      [] rule.continuation = "cont3" -> "KeyError"
      [] OTHER -> "none"
Raising == {i \in 1..Len(matches) : Raises(matches[i]) # "none"}
FirstRaising ==
    IF Raising = {} THEN Len(matches) ELSE CHOOSE i \in Raising : \A j \in Raising : i <= j

C16_RightIffBinary == (cond.right # EmptyStr) <=> (cond.operator # "bool")

\* ----------------------------------------- properties: operator tokens
\* The negated-form tokens with the base operator each is stored as, and the
\* base tokens likewise.
NegatedTokens ==
    ("!=" :> "==") @@ (">" :> "<=") @@ (">=" :> "<") @@ ("not in" :> "in") @@
    ("not like" :> "re") @@ ("does not exist" :> "bool")
BaseTokens ==
    ("==" :> "==") @@ ("<=" :> "<=") @@ ("<" :> "<") @@ ("in" :> "in") @@ ("like" :> "re") @@
    ("exists" :> "bool") @@ ("bool" :> "bool")
\* The relation a comparison token names, on ints.
Relation(token, a, b) ==
    CASE token = "==" -> a = b
      [] token = "!=" -> a # b
      [] token = "<" -> a < b
      [] token = "<=" -> a <= b
      [] token = ">" -> a > b
      [] token = ">=" -> a >= b
Comparisons == {kw \in TokenKwargs : kw.operator \in {"==", "!=", "<", "<=", ">", ">="}}
Constructed == \A i \in 1..Len(condCalls) : condCalls[i] # "negate"

RECURSIVE ConstantRoot(_)
ConstantRoot(stype) ==
    IF IsDeferred(stype) THEN stype.chain = <<>> /\ ConstantRoot(stype.stype)
    ELSE stype.k \in {"const", "name", "model"}
Folded == Len(dcalls) > 0 /\ dcalls[Len(dcalls)] = "maybe_const"

\* C18: maybe_const returns a constant only for a selector with an empty
\* chain and a constant root; a selector with a chain, or rooted at an object
\* index or extra, returns itself; and where it calls first, with no context,
\* first does not fail for want of one.
C18_FoldsOnlyConstantRoots ==
    Folded =>
        /\ ~IsDeferred(dresult.v) => (dnode.chain = <<>> /\ ConstantRoot(dnode.stype))
        /\ dnode.chain # <<>> => dresult.v = dnode
        /\ (~IsDeferred(dnode.stype) /\ dnode.stype.k \in {"objects", "extra"}) =>
              dresult.v = dnode
        /\ (~IsDeferred(dnode.stype) /\ dnode.stype.k \in {"const", "model"}) =>
              Selector_first(dnode, None).exc = "none"

\* A selector with a chain, rooted at a selector of a const, returns itself.
C18_Witness ==
    /\ Folded
    /\ dnode = Selector(1, Selector(2, ConstType(IntV(1)), <<>>), <<"x">>)
    /\ dresult.v = dnode

\* ------------------------------------------ properties: negate and collapse
\* What the wrapped form of a negated node is: its children, each negated
\* once, in one node that keeps the connector, under the dual connector.
RECURSIVE NegatedOnce(_)
NegatedOnce(x) ==
    IF IsNode(x)
    THEN ConditionNode(<<ConditionNode([i \in 1..Len(x.children) |-> NegatedOnce(x.children[i])],
                                       x.connector)>>,
                       Dual(x.connector))
    ELSE Leaf(~x.v)

\* C19: after negate() the node has exactly one child, the wrapper; the
\* wrapper holds the original children in order, each negated once, under the
\* original connector; and the node's connector is the dual of the original.
C19_NegateWrapsUnderDual ==
    LastCall = "negate" =>
        /\ Len(tree.children) = 1
        /\ IsNode(tree.children[1])
        /\ tree.children[1].connector = before.connector
        /\ tree.children[1].children =
              [i \in 1..Len(before.children) |-> NegatedOnce(before.children[i])]
        /\ tree.connector = Dual(before.connector)

\* A tree is minimal when no node below the root has fewer than two children
\* or its parent's connector, and the root is not the wrapper of one node.
RECURSIVE MinimalBelow(_)
MinimalBelow(n) ==
    \A i \in 1..Len(n.children) :
        IsNode(n.children[i]) =>
            /\ Len(n.children[i].children) >= 2
            /\ n.children[i].connector # n.connector
            /\ MinimalBelow(n.children[i])
Minimal(n) == MinimalBelow(n) /\ ~(Len(n.children) = 1 /\ IsNode(n.children[1]))

\* C20: after a collapse() that returned, the tree is minimal.
C20_CollapseMinimal ==
    (LastCall = "collapse" /\ result = "None") => Minimal(tree)

\* ------------------------------------------- properties: read-only evaluate
\* C21: evaluation writes nothing on the condition: after evaluate calls
\* only, its left, right, operator, negated and stored value are those it was
\* constructed with.
C21_EvaluateReadOnly ==
    Constructed => cond = Condition_init(condKw).c

\* --------------------------------------------- properties: parents of records
\* The records and nodes below an object of the heap.
RECURSIVE Under(_, _, _)
Under(h, id, fuel) ==
    LET cs == {h[id].children[i] : i \in 1..Len(h[id].children)}
    IN  cs \cup UNION {IF c.ref = "node" /\ fuel > 0 THEN Under(h, c.id, fuel - 1) ELSE {} :
                          c \in cs}
Resolved == Pids(conditions) \subseteq Pks(conditions)

\* C22: a builder given a record whose parent is not among the records
\* raises ValueError with nothing built; given records whose parents are all
\* there it returns a tree that holds every record, each below the node of
\* its parent (below the root when it has none).
C22_ParentsResolveOrRaise ==
    (builder # "new" /\ Len(conditions) > 0) =>
        /\ ~Resolved => built = Unbuilt(default, "ValueError")
        /\ Resolved =>
              /\ built.exc = "none"
              /\ \A i \in 1..Len(conditions) :
                    /\ CondRef(conditions[i].pk) \in Under(built.heap, 0, 2 * Len(conditions) + 1)
                    /\ CondRef(conditions[i].pk)
                          \in Under(built.heap, conditions[i].parent_id, 2 * Len(conditions) + 1)

\* ------------------------------------------- properties: rule collections
\* The weight a rule counts with, and the first rule of the collection that
\* matches (0 when none does).
WeightOf(r) == IF "weight" \in DOMAIN r THEN r.weight ELSE 0
Matching == {i \in 1..Len(held.items) : held.items[i].v}
FirstMatching == IF Matching = {} THEN 0 ELSE CHOOSE i \in Matching : \A j \in Matching : i <= j

\* C23: a collection holds the rules it was given in ascending order of
\* weight; RuleMutex.match calls the rules in that order up to the first that
\* matches and returns it, or goes through all and returns False; what it
\* returns is the first of what RuleList.matches gives on the same rules.
C23_MutexReturnsFirstMatch ==
    /\ held.cls # "none" =>
          /\ Len(held.items) = Len(given)
          /\ {held.items[i] : i \in 1..Len(held.items)} = {given[i] : i \in 1..Len(given)}
          /\ \A i, j \in 1..Len(held.items) :
                i < j => WeightOf(held.items[i]) <= WeightOf(held.items[j])
    /\ matchOut.call = "match" =>
          /\ matchOut.exc = "none"
          /\ matchOut.x = (IF FirstMatching = 0 THEN 0 ELSE held.items[FirstMatching].id)
          /\ matchOut.evaluated =
                [i \in 1..(IF FirstMatching = 0 THEN Len(held.items) ELSE FirstMatching) |->
                    held.items[i].id]
          /\ LET all == RuleList_matches(held.items, 1, <<>>, <<>>)
             IN  /\ all.exc = "none"
                 /\ matchOut.x = (IF Len(all.results) = 0 THEN 0 ELSE all.results[1])

\* ------------------------------------------ properties: collapsing twice
\* C30: a collapse() right after a collapse() leaves the tree as it found it:
\* the same children in the same order under the same connectors, at every
\* level.
C30_CollapseIdempotent ==
    (Len(calls) >= 2 /\ calls[Len(calls)] = "collapse" /\ calls[Len(calls) - 1] = "collapse")
        => tree = before

\* Two collapses that returned, the first of which took the tree apart.
C30_Witness ==
    /\ calls = <<"collapse", "collapse">>
    /\ result = "None"
    /\ before # orig
    /\ before.connector # orig.connector
    /\ tree = before

\* ------------------------------------------------ properties: operators
\* What the node an operator returned should stand for.
Expected ==
    CASE opOut.op = "~" -> ~Holds(opOut.n)
      [] opOut.op \in {"&", "&="} -> Holds(opOut.n) /\ Holds(opOut.m)
      [] OTHER -> Holds(opOut.n) \/ Holds(opOut.m)

\* C28: ~n, n & m and n | m return a node that is not n and leave n and m
\* as they were; n &= m and n |= m change n and return it; the node
\* returned evaluates to NOT n, n AND m, n OR m.
C28_OperatorsReturnNewNode ==
    opOut.op # "none" =>
        /\ opOut.exc = "none"
        /\ rhs = opOut.m
        /\ opOut.op \in {"~", "&", "|"} => (~opOut.self /\ lhs = opOut.n)
        /\ opOut.op \in {"&=", "|="} => (opOut.self /\ lhs = opOut.t)
        /\ ConditionNode_evaluate(opOut.t) = AsResult(Expected)

\* ----------------------------------------------- properties: rule cache
\* The sources a lookup of a key the cache does not hold has to call: the
\* callables among those registered, the default source when there are none.
RECURSIVE Callables(_, _)
Callables(sources, i) ==
    IF i > Len(sources) THEN <<>>
    ELSE (IF sources[i].kind = "callable" THEN <<sources[i].id>> ELSE <<>>)
         \o Callables(sources, i + 1)
RegisteredSources(c, key) ==
    IF c.sources[key] = <<>> THEN <<RuleCache_get_default_source(key)>> ELSE c.sources[key]
Yielded(sources) == UNION {{sources[i].items[j] : j \in 1..Len(sources[i].items)} :
                              i \in 1..Len(sources)}
Ascending(rules) ==
    \A i, j \in 1..Len(rules) : i < j => WeightOf(rules[i]) <= WeightOf(rules[j])

\* C25: a lookup of a key the cache does not hold calls every source of the
\* key, stores their rules in order of weight and returns what it stored; a
\* lookup of a key it holds returns what is stored and calls nothing,
\* whatever was done to the sources since; only a lookup calls sources, and
\* an assignment leaves the sources as they are.
C25_ComputedOnce ==
    LET b == cacheOut.before
        k == cacheOut.key
    IN  /\ (cacheOut.op = "getitem" /\ b.store[k].has) =>
              /\ cacheOut.called = <<>>
              /\ cacheOut.v = b.store[k].rules
              /\ rcache = b
        /\ (cacheOut.op = "getitem" /\ ~b.store[k].has) =>
              /\ cacheOut.called = Callables(RegisteredSources(b, k), 1)
              /\ rcache.store[k] = Stored(cacheOut.v)
              /\ Ascending(cacheOut.v)
              /\ {cacheOut.v[i] : i \in 1..Len(cacheOut.v)} = Yielded(RegisteredSources(b, k))
              /\ \A j \in CacheKeys \ {k} : rcache.store[j] = b.store[j]
        /\ cacheOut.op # "getitem" => cacheOut.called = <<>>
        /\ cacheOut.op \in {"add_source", "set_primary_source"} => rcache.store = b.store
        /\ cacheOut.op = "setitem" => rcache.sources = b.sources
        /\ cacheOut.op = "delitem" =>
              (rcache.sources = b.sources /\ ~rcache.store[k].has)

\* A key looked up, given another source, and looked up again: the second
\* lookup returns the rules stored by the first.
C25_Witness ==
    /\ ncache = 3
    /\ cacheOut.op = "getitem"
    /\ cacheOut.before.store[cacheOut.key].has
    /\ Len(cacheOut.before.sources[cacheOut.key]) = 2
    /\ Len(cacheOut.v) = 2
    /\ cacheOut.called = <<>>

\* ------------------------------------------- properties: signal checker
\* The snapshot of an instance that was tracked before the last signal.
WasTracked == \E item \in sigOut.before : item.key.pk = sigOut.instance.pk
Snapshot == (CHOOSE item \in sigOut.before : item.key.pk = sigOut.instance.pk).snap
NowTracked(pk) == {item.snap : item \in {it \in tracked : it.key.pk = pk}}

\* C26: the save of an instance that is tracked is checked as an update of
\* its snapshot, before and after the save; after the save the snapshot is
\* the saved instance; after a delete the instance is no longer tracked.
C26_TrackedSaveIsUpdate ==
    /\ (WasTracked /\ (sigOut.sig = "pre_save" \/ (sigOut.sig = "post_save" /\ ~sigOut.created)))
          => /\ Len(sigOut.checks) = 1
             /\ sigOut.checks[1].trigger.eventtype = "update"
             /\ sigOut.checks[1].objects = <<Snapshot, sigOut.instance>>
    /\ (WasTracked /\ sigOut.sig = "post_save")
          => NowTracked(sigOut.instance.pk) = {sigOut.instance}
    /\ (WasTracked /\ sigOut.sig = "post_delete") => NowTracked(sigOut.instance.pk) = {}

\* --------------------------------------------- properties: occurrences
\* The number of times an occurrence was written.
Writes(occ) == Cardinality({i \in 1..Len(occStore) : occStore[i] = occ})

RECURSIVE DeferredIn(_)
DeferredIn(x) ==
    IF IsDeferred(x)
    THEN CASE x.cls = "Selector" -> {x} \cup DeferredIn(x.stype)
           [] x.cls = "Function" -> {x} \cup DeferredIn(x.args)
           [] OTHER -> UNION {DeferredIn(x.items[i]) : i \in 1..Len(x.items)}
    ELSE IF "ty" \in DOMAIN x /\ x.ty = "list"
    THEN UNION {DeferredIn(x.items[i]) : i \in 1..Len(x.items)}
    ELSE {}

\* The deferred values of the operands of a tree.
RECURSIVE TreeDeferred(_)
TreeDeferred(x) ==
    IF IsCondition(x) THEN DeferredIn(x.c.left) \cup DeferredIn(x.c.right)
    ELSE UNION {TreeDeferred(x.children[i]) : i \in 1..Len(x.children)}

\* The values of a set up to equality.
DistinctDeferred(D) == {{e \in D : DeferredEquals(e, d)} : d \in D}

\* The list `deferred` as format_rule has it when it writes the prefix.
WithList == _format_tree(ftree, NoDeferred)

\* C24: format_rule numbers the deferred values of a tree by equality: equal
\* values get the one index of the first of them, the list holds no two
\* equal values, and it is as long as the tree has distinct deferred values.
C24_OneIndexPerDistinctValue ==
    fstage = "formatted" =>
        /\ ftext.exc = "none"
        /\ LET d == WithList.deferred
           IN  /\ Len(d.strs) = Len(d.objs)
               /\ \A p, q \in 1..Len(d.objs) : p # q => ~DeferredEquals(d.objs[p], d.objs[q])
               /\ \A x \in TreeDeferred(ftree) : DeferredIndex(d, x) > 0
               /\ Len(d.objs) = Cardinality(DistinctDeferred(TreeDeferred(ftree)))

\* The backreferences \N written in a text.
BackrefsIn(text) == {text[i].n : i \in {j \in 1..Len(text) : text[j].t = "\\"}}

\* C29: format_rule writes a with-list whose entry k (from 0) holds only
\* backreferences below k, and parse_rule resolves every backreference of the
\* text.
C29_BackrefsPointBack ==
    /\ fstage = "formatted" =>
          /\ ftext.exc = "none"
          /\ \A k \in 1..Len(WithList.deferred.strs) :
                \A n \in BackrefsIn(WithList.deferred.strs[k]) : n < k - 1
    /\ fstage = "parsed" => fparsed.exc = "none"

====
